---- MODULE Spec2Model ----
(***************************************************************************)
(* Model of the R011 row enrichment pipeline (src/src/venezuela.py) and of *)
(* the /process handler with its comment reconciliation and destination    *)
(* table replacement (src/src/api.py).                                     *)
(*                                                                         *)
(* Representation.  A Python str is a sequence of one-character strings.   *)
(* A DataFrame cell is a record [k, n, s]: k = "nan" (NaN / None / NaT),   *)
(* k = "num" (a number, n), k = "str" (a str, s) or k = "date" (a          *)
(* datetime, n = days since 1970-01-01).  Numbers are integers.  A         *)
(* DataFrame is [cols, rows]: the column names in order and the rows in    *)
(* order, each row a function from column name to cell.                    *)
(***************************************************************************)
EXTENDS Integers, Sequences, FiniteSets, TLC

(***************************************************************************)
(* Python str operations                                                   *)
(***************************************************************************)
Whitespace == {" ", "\t", "\n"}

LowerLetters == <<"a", "b", "c", "d", "e", "f", "g", "h", "i", "j", "k", "l", "m",
                  "n", "o", "p", "q", "r", "s", "t", "u", "v", "w", "x", "y", "z",
                  "á", "é", "í", "ó", "ú", "ñ">>

UpperLetters == <<"A", "B", "C", "D", "E", "F", "G", "H", "I", "J", "K", "L", "M",
                  "N", "O", "P", "Q", "R", "S", "T", "U", "V", "W", "X", "Y", "Z",
                  "Á", "É", "Í", "Ó", "Ú", "Ñ">>

Digits == <<"0", "1", "2", "3", "4", "5", "6", "7", "8", "9">>

IsIn(seq, c) == \E i \in 1..Len(seq) : seq[i] = c

IndexOf(seq, c) == CHOOSE i \in 1..Len(seq) : seq[i] = c

upper_ch(c) == IF IsIn(LowerLetters, c) THEN UpperLetters[IndexOf(LowerLetters, c)] ELSE c

lower_ch(c) == IF IsIn(UpperLetters, c) THEN LowerLetters[IndexOf(UpperLetters, c)] ELSE c

upper(s) == [i \in 1..Len(s) |-> upper_ch(s[i])]

lower(s) == [i \in 1..Len(s) |-> lower_ch(s[i])]

RECURSIVE lstrip(_)
lstrip(s) == IF s = <<>> THEN <<>>
             ELSE IF Head(s) \in Whitespace THEN lstrip(Tail(s)) ELSE s

RECURSIVE rstrip(_)
rstrip(s) == IF s = <<>> THEN <<>>
             ELSE IF s[Len(s)] \in Whitespace THEN rstrip(SubSeq(s, 1, Len(s) - 1)) ELSE s

strip(s) == rstrip(lstrip(s))

\* s.replace(' ', '').replace('\t', '').replace('\n', '')
remove_spaces(s) == SelectSeq(s, LAMBDA c : c \notin Whitespace)

startswith(s, p) == Len(p) <= Len(s) /\ SubSeq(s, 1, Len(p)) = p

endswith(s, p) == Len(p) <= Len(s) /\ SubSeq(s, Len(s) - Len(p) + 1, Len(s)) = p

\* sub in s
contains(s, sub) == \E i \in 0..(Len(s) - Len(sub)) : SubSeq(s, i + 1, i + Len(sub)) = sub

RECURSIVE nat_str(_)
nat_str(n) == IF n < 10 THEN <<Digits[n + 1]>>
              ELSE Append(nat_str(n \div 10), Digits[(n % 10) + 1])

\* str(n) of an int
int_str(n) == IF n < 0 THEN <<"-">> \o nat_str(0 - n) ELSE nat_str(n)

RECURSIVE digits_value(_)
digits_value(s) == IF s = <<>> THEN 0
                   ELSE 10 * digits_value(SubSeq(s, 1, Len(s) - 1))
                        + (IndexOf(Digits, s[Len(s)]) - 1)

all_digits(s) == s /= <<>> /\ \A i \in 1..Len(s) : IsIn(Digits, s[i])

(***************************************************************************)
(* Cells and their pandas coercions                                        *)
(***************************************************************************)
NaN == [k |-> "nan", n |-> 0, s |-> <<>>]

Num(i) == [k |-> "num", n |-> i, s |-> <<>>]

Txt(s) == [k |-> "str", n |-> 0, s |-> s]

Date(d) == [k |-> "date", n |-> d, s |-> <<>>]

S_nan == <<"n", "a", "n">>
S_NaT == <<"N", "a", "T">>
S_NDINT == <<"N", "D", "I", "N", "T">>
S_PPV == <<"P", "P", "V">>
S_PPV2 == <<"P", "P", "V", "2">>
S_PPV3 == <<"P", "P", "V", "3">>
S_CENDIS == <<"C", "E", "N", "D", "I", "S">>
S_Directo == <<"D", "i", "r", "e", "c", "t", "o">>
S_DISCREPANCIA_DE_IMPUESTO == <<"D", "I", "S", "C", "R", "E", "P", "A", "N", "C", "I", "A", " ", "D", "E", " ", "I", "M", "P", "U", "E", "S", "T", "O">>
S_Discrepancia_en_Impuesto == <<"D", "i", "s", "c", "r", "e", "p", "a", "n", "c", "i", "a", " ", "e", "n", " ", "I", "m", "p", "u", "e", "s", "t", "o">>
S_Discrepancia_en_Costos == <<"D", "i", "s", "c", "r", "e", "p", "a", "n", "c", "i", "a", " ", "e", "n", " ", "C", "o", "s", "t", "o", "s">>
S_Discrepancia_en_Unidades == <<"D", "i", "s", "c", "r", "e", "p", "a", "n", "c", "i", "a", " ", "e", "n", " ", "U", "n", "i", "d", "a", "d", "e", "s">>
S_No_Aplica == <<"N", "o", " ", "A", "p", "l", "i", "c", "a">>
S_Revisar == <<"R", "e", "v", "i", "s", "a", "r">>

\* str(x) of a cell value: NaN prints as "nan".  Datetime cells are never
\* string-coerced by the code modelled here, so the case is left out.
py_str(c) == CASE c.k = "str" -> c.s
               [] c.k = "num" -> int_str(c.n)
               [] c.k = "nan" -> S_nan

\* Series.astype(str), one cell
astype_str(c) == Txt(py_str(c))

\* pd.notna(x)
notna(c) == c.k /= "nan"

\* pd.to_numeric(..., errors='coerce'), one cell: a number is kept, text is
\* parsed (surrounding whitespace ignored, optional sign), anything else is NaN.
to_numeric(c) ==
    CASE c.k = "num" -> c
      [] c.k = "nan" -> NaN
      [] c.k = "date" -> NaN
      [] c.k = "str" ->
           LET b == strip(c.s)
               neg == b /= <<>> /\ Head(b) = "-"
               d == IF b /= <<>> /\ Head(b) \in {"-", "+"} THEN Tail(b) ELSE b
           IN IF all_digits(d)
              THEN Num(IF neg THEN 0 - digits_value(d) ELSE digits_value(d))
              ELSE NaN

\* pd.to_numeric(..., errors='coerce').fillna(0), one cell
to_numeric_fillna0(c) == IF to_numeric(c).k = "nan" THEN Num(0) ELSE to_numeric(c)

has_digit(s) == \E i \in 1..Len(s) : IsIn(Digits, s[i])

\* pd.to_datetime(..., errors='coerce'), one cell.  A number is read as
\* nanoseconds since the epoch, which for the numbers of the model is a moment
\* of 1970-01-01.  Text without any digit is no date (NaT); text with digits
\* is outside the model.
to_datetime(c) ==
    CASE c.k = "date" -> c
      [] c.k = "nan" -> NaN
      [] c.k = "num" -> Date(0)
      [] c.k = "str" /\ ~has_digit(c.s) -> NaN

(***************************************************************************)
(* DataFrame operations                                                    *)
(***************************************************************************)
NRows(t) == Len(t.rows)

HasCol(t, c) == IsIn(t.cols, c)

\* df[c] = vals  (vals: one cell per row).  A new column goes last.
SetCol(t, c, vals) ==
    [cols |-> IF HasCol(t, c) THEN t.cols ELSE Append(t.cols, c),
     rows |-> [i \in 1..NRows(t) |->
                 [x \in (DOMAIN t.rows[i]) \cup {c} |->
                     IF x = c THEN vals[i] ELSE t.rows[i][x]]]]

\* df[c] = v  (a scalar)
SetColConst(t, c, v) == SetCol(t, c, [i \in 1..NRows(t) |-> v])

\* df[c] = df[c].astype(str)
AstypeStr(t, c) == SetCol(t, c, [i \in 1..NRows(t) |-> astype_str(t.rows[i][c])])

\* df[c] = pd.to_numeric(df[c], errors='coerce').fillna(0)
ToNumericFillna0(t, c) ==
    SetCol(t, c, [i \in 1..NRows(t) |-> to_numeric_fillna0(t.rows[i][c])])

\* df[mask]
FilterRows(t, Keep(_)) == [cols |-> t.cols, rows |-> SelectSeq(t.rows, Keep)]

EmptyDict == <<>>

(***************************************************************************)
(* Column derivation pipeline (venezuela.py), one operator per function.   *)
(***************************************************************************)

\* 1. df.dropna(how='all')
remove_empty_rows(df) ==
    FilterRows(df, LAMBDA r : \E c \in DOMAIN r : notna(r[c]))

\* faulty variant of step 2: the prefix is looked for in the trimmed, upper-cased text
remove_ndint_invoices_upper(df) ==
    IF ~HasCol(df, "Número Factura") THEN df
    ELSE FilterRows(AstypeStr(df, "Número Factura"),
                    LAMBDA r : ~startswith(upper(strip(r["Número Factura"].s)), S_NDINT))

\* faulty variant of step 2: the NDINT rows are counted but not dropped
remove_ndint_invoices_count_only(df) ==
    IF ~HasCol(df, "Número Factura") THEN df ELSE AstypeStr(df, "Número Factura")

\* 2. drop the rows whose str-coerced "Número Factura" starts with "NDINT"
remove_ndint_invoices(df) ==
    IF ~HasCol(df, "Número Factura") THEN df
    ELSE FilterRows(AstypeStr(df, "Número Factura"),
                    LAMBDA r : ~startswith(r["Número Factura"].s, S_NDINT))

\* faulty variant of step 4: CENDIS is tested before the PPV suffix
tipo_proveedor_row_cendis_first(has_sucursal, has_tienda, r) ==
    LET sucursal == upper(strip(py_str(r["Sucursal"])))
        tienda == upper(strip(py_str(r["Tienda"])))
    IN IF has_tienda /\ tienda = S_CENDIS THEN S_CENDIS
       ELSE IF has_sucursal /\ (endswith(sucursal, S_PPV) \/ endswith(sucursal, S_PPV2)
                                \/ endswith(sucursal, S_PPV3))
            THEN S_PPV ELSE S_Directo

\* 4. "Tipo de Proveedor" of one row
tipo_proveedor_row(has_sucursal, has_tienda, r) ==
    LET sucursal == upper(strip(py_str(r["Sucursal"])))
        tienda == upper(strip(py_str(r["Tienda"])))
    IN IF has_sucursal
       THEN IF endswith(sucursal, S_PPV) \/ endswith(sucursal, S_PPV2)
               \/ endswith(sucursal, S_PPV3)
            THEN S_PPV
            ELSE IF has_tienda /\ tienda = S_CENDIS THEN S_CENDIS ELSE S_Directo
       ELSE IF has_tienda /\ tienda = S_CENDIS THEN S_CENDIS ELSE S_Directo

add_tipo_proveedor_column(df) ==
    LET d0 == SetColConst(df, "Tipo de Proveedor", Txt(S_Directo))
        has_sucursal == HasCol(d0, "Sucursal")
        has_tienda == HasCol(d0, "Tienda")
        d1 == IF has_sucursal THEN AstypeStr(d0, "Sucursal") ELSE d0
        d2 == IF has_tienda THEN AstypeStr(d1, "Tienda") ELSE d1
    IN IF ~has_sucursal /\ ~has_tienda THEN d0
       ELSE SetCol(d2, "Tipo de Proveedor",
                   [i \in 1..NRows(d2) |->
                       Txt(tipo_proveedor_row(has_sucursal, has_tienda, d2.rows[i]))])

\* 5. "Motivo de Retención", pass 1, of one row
motivo_retencion_row(has_estado, has_tipo_proveedor, r) ==
    LET estado == strip(py_str(r["Estado"]))
        tipo_proveedor == strip(py_str(r["Tipo de Proveedor"]))
    IN IF has_estado
       THEN IF estado = S_DISCREPANCIA_DE_IMPUESTO THEN S_Discrepancia_en_Impuesto
            ELSE IF has_tipo_proveedor /\ tipo_proveedor = S_PPV
                 THEN S_Discrepancia_en_Costos ELSE <<>>
       ELSE IF has_tipo_proveedor /\ tipo_proveedor = S_PPV
            THEN S_Discrepancia_en_Costos ELSE <<>>

add_motivo_retencion_column(df) ==
    LET d0 == SetColConst(df, "Motivo de Retención", Txt(<<>>))
        has_estado == HasCol(d0, "Estado")
        has_tipo_proveedor == HasCol(d0, "Tipo de Proveedor")
        d1 == IF has_estado THEN AstypeStr(d0, "Estado") ELSE d0
        d2 == IF has_tipo_proveedor THEN AstypeStr(d1, "Tipo de Proveedor") ELSE d1
    IN IF ~has_estado /\ ~has_tipo_proveedor THEN d0
       ELSE SetCol(d2, "Motivo de Retención",
                   [i \in 1..NRows(d2) |->
                       Txt(motivo_retencion_row(has_estado, has_tipo_proveedor, d2.rows[i]))])

\* faulty variant of step 6: the count is added to a count the table already carries
add_validacion_oc_column_accumulate(df) ==
    IF ~HasCol(df, "Orden Compra") THEN SetColConst(df, "Validacion de OC", Num(0))
    ELSE LET d1 == AstypeStr(df, "Orden Compra")
         IN SetCol(d1, "Validacion de OC",
                   [i \in 1..NRows(d1) |->
                       Num((IF HasCol(df, "Validacion de OC")
                            THEN to_numeric_fillna0(df.rows[i]["Validacion de OC"]).n ELSE 0)
                           + Cardinality({j \in 1..NRows(d1) :
                               d1.rows[j]["Orden Compra"] = d1.rows[i]["Orden Compra"]}))])

\* 6. "Validacion de OC": value_counts() of the str-coerced "Orden Compra"
add_validacion_oc_column(df) ==
    IF ~HasCol(df, "Orden Compra") THEN SetColConst(df, "Validacion de OC", Num(0))
    ELSE LET d1 == AstypeStr(df, "Orden Compra")
         IN SetCol(d1, "Validacion de OC",
                   [i \in 1..NRows(d1) |->
                       Num(Cardinality({j \in 1..NRows(d1) :
                             d1.rows[j]["Orden Compra"] = d1.rows[i]["Orden Compra"]}))])

\* faulty variant of step 7: a count of exactly 1 falls on the other side
add_diferencia_real_column_strict(df) ==
    IF ~HasCol(df, "Validacion de OC") THEN SetColConst(df, "Diferencia Real", Txt(S_Revisar))
    ELSE LET d1 == ToNumericFillna0(df, "Validacion de OC")
         IN SetCol(d1, "Diferencia Real",
                   [i \in 1..NRows(d1) |->
                       IF d1.rows[i]["Validacion de OC"].n < 1
                       THEN Txt(S_No_Aplica) ELSE Txt(S_Revisar)])

\* 7. "Diferencia Real"
add_diferencia_real_column(df) ==
    IF ~HasCol(df, "Validacion de OC") THEN SetColConst(df, "Diferencia Real", Txt(S_Revisar))
    ELSE LET d1 == ToNumericFillna0(df, "Validacion de OC")
         IN SetCol(d1, "Diferencia Real",
                   [i \in 1..NRows(d1) |->
                       IF d1.rows[i]["Validacion de OC"].n <= 1
                       THEN Txt(S_No_Aplica) ELSE Txt(S_Revisar)])

\* groupby(key)[val].sum() evaluated at one key
RECURSIVE GroupSum(_, _, _, _, _)
GroupSum(rows, keycol, valcol, key, i) ==
    IF i = 0 THEN 0
    ELSE GroupSum(rows, keycol, valcol, key, i - 1)
         + (IF rows[i][keycol] = key THEN rows[i][valcol].n ELSE 0)

\* the SUMIF columns: sum of valcol over the rows of the same "Orden Compra"
sum_by_orden(df, valcol, target) ==
    LET d1 == AstypeStr(df, "Orden Compra")
        d2 == ToNumericFillna0(d1, valcol)
    IN SetCol(d2, target,
              [i \in 1..NRows(d2) |->
                  Num(GroupSum(d2.rows, "Orden Compra", valcol,
                               d2.rows[i]["Orden Compra"], NRows(d2)))])

\* faulty variant of step 8: the received units are summed
add_valor_real_unidades_column_recibidas(df) ==
    IF ~HasCol(df, "Orden Compra") \/ ~HasCol(df, "Unidades Recibidas")
    THEN SetColConst(df, "Valor Real de Unidades", Num(0))
    ELSE sum_by_orden(df, "Unidades Recibidas", "Valor Real de Unidades")

\* 8. "Valor Real de Unidades"
add_valor_real_unidades_column(df) ==
    IF ~HasCol(df, "Orden Compra") \/ ~HasCol(df, "Unidades por Factura")
    THEN SetColConst(df, "Valor Real de Unidades", Num(0))
    ELSE sum_by_orden(df, "Unidades por Factura", "Valor Real de Unidades")

\* a - b of two numeric columns, both coerced with fillna(0)
difference_column(df, a, b, target) ==
    LET d1 == ToNumericFillna0(df, a)
        d2 == ToNumericFillna0(d1, b)
    IN SetCol(d2, target,
              [i \in 1..NRows(d2) |-> Num(d2.rows[i][a].n - d2.rows[i][b].n)])

\* faulty variant of step 9: without the received units the table is returned as it came
add_diferencia_unidades_column_bare_return(df) ==
    IF ~HasCol(df, "Valor Real de Unidades") \/ ~HasCol(df, "Unidades Recibidas")
    THEN df
    ELSE difference_column(df, "Valor Real de Unidades", "Unidades Recibidas",
                           "Diferencia Unidades")

\* 9. "Diferencia Unidades"
add_diferencia_unidades_column(df) ==
    IF ~HasCol(df, "Valor Real de Unidades") \/ ~HasCol(df, "Unidades Recibidas")
    THEN SetColConst(df, "Diferencia Unidades", Num(0))
    ELSE difference_column(df, "Valor Real de Unidades", "Unidades Recibidas",
                           "Diferencia Unidades")

\* faulty variant of step 10: the reason already there is not looked at
update_motivo_retencion_after_diferencia_unidades_any(df) ==
    IF ~HasCol(df, "Diferencia Unidades") \/ ~HasCol(df, "Motivo de Retención") THEN df
    ELSE LET d1 == SetCol(df, "Diferencia Unidades",
                          [i \in 1..NRows(df) |-> to_numeric(df.rows[i]["Diferencia Unidades"])])
             d2 == AstypeStr(d1, "Motivo de Retención")
             upd(r) == IF ~notna(r["Diferencia Unidades"]) \/ r["Diferencia Unidades"].n = 0
                       THEN Txt(S_Discrepancia_en_Costos)
                       ELSE r["Motivo de Retención"]
         IN SetCol(d2, "Motivo de Retención", [i \in 1..NRows(d2) |-> upd(d2.rows[i])])

\* 10. "Motivo de Retención", pass 2
update_motivo_retencion_after_diferencia_unidades(df) ==
    IF ~HasCol(df, "Diferencia Unidades") \/ ~HasCol(df, "Motivo de Retención") THEN df
    ELSE LET d1 == SetCol(df, "Diferencia Unidades",
                          [i \in 1..NRows(df) |-> to_numeric(df.rows[i]["Diferencia Unidades"])])
             d2 == AstypeStr(d1, "Motivo de Retención")
             upd(r) ==
                 LET diferencia_unidades == r["Diferencia Unidades"]
                     motivo_retencion == strip(py_str(r["Motivo de Retención"]))
                     is_zero_or_null == ~notna(diferencia_unidades) \/ diferencia_unidades.n = 0
                 IN IF is_zero_or_null
                       /\ (motivo_retencion = S_Discrepancia_en_Costos
                           \/ motivo_retencion = <<>> \/ motivo_retencion = S_nan)
                    THEN Txt(S_Discrepancia_en_Costos)
                    ELSE r["Motivo de Retención"]
         IN SetCol(d2, "Motivo de Retención", [i \in 1..NRows(d2) |-> upd(d2.rows[i])])

\* 11. "Valor Real de Subtotal"
add_valor_real_subtotal_column(df) ==
    IF ~HasCol(df, "Orden Compra") \/ ~HasCol(df, "SubTotal")
    THEN SetColConst(df, "Valor Real de Subtotal", Num(0))
    ELSE sum_by_orden(df, "SubTotal", "Valor Real de Subtotal")

\* 12. "Diferencia Costo"
add_diferencia_costo_column(df) ==
    IF ~HasCol(df, "Valor Real de Subtotal") \/ ~HasCol(df, "Costo Recepcion")
    THEN SetColConst(df, "Diferencia Costo", Num(0))
    ELSE difference_column(df, "Valor Real de Subtotal", "Costo Recepcion",
                           "Diferencia Costo")

\* faulty variant of step 13: only the text "nan" is taken for an empty reason
fill_motivo_retencion_unidades_nan_only(df) ==
    IF ~HasCol(df, "Motivo de Retención") THEN df
    ELSE LET d1 == AstypeStr(df, "Motivo de Retención")
             fill(r) == IF strip(py_str(r["Motivo de Retención"])) = S_nan
                        THEN Txt(S_Discrepancia_en_Unidades)
                        ELSE r["Motivo de Retención"]
         IN SetCol(d1, "Motivo de Retención", [i \in 1..NRows(d1) |-> fill(d1.rows[i])])

\* 13. "Motivo de Retención", pass 3
fill_motivo_retencion_unidades(df) ==
    IF ~HasCol(df, "Motivo de Retención") THEN df
    ELSE LET d1 == AstypeStr(df, "Motivo de Retención")
             fill(r) ==
                 LET motivo_retencion == strip(py_str(r["Motivo de Retención"]))
                 IN IF motivo_retencion = <<>> \/ motivo_retencion = S_nan
                    THEN Txt(S_Discrepancia_en_Unidades)
                    ELSE r["Motivo de Retención"]
         IN SetCol(d1, "Motivo de Retención", [i \in 1..NRows(d1) |-> fill(d1.rows[i])])

(***************************************************************************)
(* Reference lookup builders.  A worksheet read is [ok, values]: ok is     *)
(* FALSE when gspread raises (no access, no such worksheet), values is     *)
(* get_all_values(): the header row, then the value rows.                  *)
(***************************************************************************)
S_NOMBRE_PROVEEDOR == <<"N", "O", "M", "B", "R", "E", " ", "P", "R", "O", "V", "E", "E", "D", "O", "R">>
S_UNIDAD_DE_NEGOCIO == <<"U", "N", "I", "D", "A", "D", " ", "D", "E", " ", "N", "E", "G", "O", "C", "I", "O">>
S_Tienda == <<"T", "i", "e", "n", "d", "a">>
S_AREA_acento == <<"Á", "R", "E", "A">>
S_AREA == <<"A", "R", "E", "A">>
S_GTE == <<"G", "T", "E">>
S_GERENTE == <<"G", "E", "R", "E", "N", "T", "E">>
S_SUCURSAL == <<"S", "U", "C", "U", "R", "S", "A", "L">>
S_ESPECIALISTA == <<"E", "S", "P", "E", "C", "I", "A", "L", "I", "S", "T", "A">>

Max2(a, b) == IF a >= b THEN a ELSE b

\* the first index whose element satisfies P (list.index / the for ... break loops)
FirstIndex(seq, P(_)) ==
    CHOOSE i \in 1..Len(seq) : P(seq[i]) /\ \A j \in 1..(i - 1) : ~P(seq[j])

HasIndex(seq, P(_)) == \E i \in 1..Len(seq) : P(seq[i])

\* the "for row in all_values[1:]" loops: a row shorter than need, or with an
\* empty key, is skipped; of the rows with one normalized key the last one wins
dict_from_rows(values, key_idx, val_idx, need, Norm(_)) ==
    LET valid == {i \in 2..Len(values) :
                    Len(values[i]) >= need /\ strip(values[i][key_idx]) /= <<>>}
        key_of(i) == Norm(strip(values[i][key_idx]))
        last(k) == CHOOSE i \in valid :
                       key_of(i) = k /\ \A j \in valid : key_of(j) = k => j <= i
    IN [k \in {key_of(i) : i \in valid} |-> strip(values[last(k)][val_idx])]

IsEmptyDict(d) == DOMAIN d = {}

provider_key(s) == remove_spaces(s)

tienda_key(s) == upper(remove_spaces(s))

sucursal_key(s) == upper(remove_spaces(s))

get_provider_mapping(ws) ==
    IF ~ws.ok \/ Len(ws.values) < 2 THEN EmptyDict
    ELSE LET headers == [i \in 1..Len(ws.values[1]) |-> upper(strip(ws.values[1][i]))]
         IN IF ~IsIn(headers, S_NOMBRE_PROVEEDOR) \/ ~IsIn(headers, S_UNIDAD_DE_NEGOCIO)
            THEN EmptyDict
            ELSE LET provider_idx == FirstIndex(headers, LAMBDA h : h = S_NOMBRE_PROVEEDOR)
                     unidad_idx == FirstIndex(headers, LAMBDA h : h = S_UNIDAD_DE_NEGOCIO)
                 IN dict_from_rows(ws.values, provider_idx, unidad_idx,
                                   Max2(provider_idx, unidad_idx), provider_key)

is_area_header(h) == upper(strip(h)) \in {S_AREA_acento, S_AREA}

is_gerente_header(h) ==
    LET h_upper == upper(strip(h))
    IN \/ contains(h_upper, S_GTE) /\ contains(h_upper, S_AREA_acento)
       \/ contains(h_upper, S_GTE) /\ contains(h_upper, S_AREA)
       \/ contains(h_upper, S_GERENTE) /\ contains(h_upper, S_AREA_acento)
       \/ contains(h_upper, S_GERENTE) /\ contains(h_upper, S_AREA)

\* returns [area, gerente]: the two dicts keyed by the normalized store
get_tienda_mapping(ws) ==
    LET none == [area |-> EmptyDict, gerente |-> EmptyDict]
    IN IF ~ws.ok \/ Len(ws.values) < 2 THEN none
       ELSE LET headers == [i \in 1..Len(ws.values[1]) |-> strip(ws.values[1][i])]
            IN IF ~IsIn(headers, S_Tienda) \/ ~HasIndex(headers, is_area_header) THEN none
               ELSE LET tienda_idx == FirstIndex(headers, LAMBDA h : h = S_Tienda)
                        area_idx == FirstIndex(headers, is_area_header)
                        has_gerente == HasIndex(headers, is_gerente_header)
                        gerente_idx == IF has_gerente
                                       THEN FirstIndex(headers, is_gerente_header) ELSE 0
                        need == Max2(Max2(tienda_idx, area_idx), Max2(gerente_idx, 1))
                    IN [area |-> dict_from_rows(ws.values, tienda_idx,
                                                area_idx, need, tienda_key),
                        gerente |-> IF has_gerente
                                    THEN dict_from_rows(ws.values, tienda_idx,
                                                        gerente_idx, need, tienda_key)
                                    ELSE EmptyDict]

\* faulty variant of the specialist builder: without the header, the second column is taken
get_especialista_mapping_positional(ws) ==
    IF ~ws.ok \/ Len(ws.values) < 2 THEN EmptyDict
    ELSE LET headers == [i \in 1..Len(ws.values[1]) |-> strip(ws.values[1][i])]
             is_especialista(h) == upper(strip(h)) = S_ESPECIALISTA
         IN IF ~IsIn(headers, S_SUCURSAL) THEN EmptyDict
            ELSE LET sucursal_idx == FirstIndex(headers, LAMBDA h : h = S_SUCURSAL)
                     especialista_idx == IF HasIndex(headers, is_especialista)
                                         THEN FirstIndex(headers, is_especialista) ELSE 2
                 IN dict_from_rows(ws.values, sucursal_idx, especialista_idx,
                                   Max2(sucursal_idx, especialista_idx), sucursal_key)

get_especialista_mapping(ws) ==
    IF ~ws.ok \/ Len(ws.values) < 2 THEN EmptyDict
    ELSE LET headers == [i \in 1..Len(ws.values[1]) |-> strip(ws.values[1][i])]
             is_especialista(h) == upper(strip(h)) = S_ESPECIALISTA
         IN IF ~IsIn(headers, S_SUCURSAL) \/ ~HasIndex(headers, is_especialista)
            THEN EmptyDict
            ELSE LET sucursal_idx == FirstIndex(headers, LAMBDA h : h = S_SUCURSAL)
                     especialista_idx == FirstIndex(headers, is_especialista)
                 IN dict_from_rows(ws.values, sucursal_idx, especialista_idx,
                                   Max2(sucursal_idx, especialista_idx), sucursal_key)

\* the probe loop shared by the lookup columns: the target starts empty, the
\* source column is str-coerced, and each row takes mapping[Norm(strip(value))]
lookup_column(df, src, target, mapping, Norm(_)) ==
    LET d1 == AstypeStr(SetColConst(df, target, Txt(<<>>)), src)
        probe(r) == LET key == Norm(strip(py_str(r[src])))
                    IN IF key \in DOMAIN mapping THEN Txt(mapping[key]) ELSE Txt(<<>>)
    IN SetCol(d1, target, [i \in 1..NRows(d1) |-> probe(d1.rows[i])])

\* 3. "Unidad de Negocio"
add_unidad_negocio_column(df, credentials, spreadsheet_id, ws) ==
    IF ~HasCol(df, "Sucursal") \/ ~credentials \/ ~spreadsheet_id
       \/ IsEmptyDict(get_provider_mapping(ws))
    THEN SetColConst(df, "Unidad de Negocio", Txt(<<>>))
    ELSE lookup_column(df, "Sucursal", "Unidad de Negocio",
                       get_provider_mapping(ws), provider_key)

\* faulty variant of step 14: the store of the row is probed without being
\* upper-cased
add_area_column_unfolded(df, credentials, spreadsheet_id, ws) ==
    IF ~HasCol(df, "Tienda") \/ ~credentials \/ ~spreadsheet_id
       \/ IsEmptyDict(get_tienda_mapping(ws).area)
    THEN SetColConst(df, "Area", Txt(<<>>))
    ELSE lookup_column(df, "Tienda", "Area", get_tienda_mapping(ws).area, provider_key)

\* 14. "Area"
add_area_column(df, credentials, spreadsheet_id, ws) ==
    IF ~HasCol(df, "Tienda") \/ ~credentials \/ ~spreadsheet_id
       \/ IsEmptyDict(get_tienda_mapping(ws).area)
    THEN SetColConst(df, "Area", Txt(<<>>))
    ELSE lookup_column(df, "Tienda", "Area", get_tienda_mapping(ws).area, tienda_key)

\* 15. "Gerente de Area"
add_gerente_area_column(df, credentials, spreadsheet_id, ws) ==
    IF ~HasCol(df, "Tienda") \/ ~credentials \/ ~spreadsheet_id
       \/ IsEmptyDict(get_tienda_mapping(ws).gerente)
    THEN SetColConst(df, "Gerente de Area", Txt(<<>>))
    ELSE lookup_column(df, "Tienda", "Gerente de Area",
                       get_tienda_mapping(ws).gerente, tienda_key)

\* faulty variant of step 16: the store name is compared without being trimmed
validate_cendis_area_untrimmed(df) ==
    IF ~HasCol(df, "Tienda") \/ ~HasCol(df, "Area") \/ ~HasCol(df, "Gerente de Area") THEN df
    ELSE LET d1 == AstypeStr(AstypeStr(AstypeStr(df, "Tienda"), "Area"), "Gerente de Area")
             is_cendis(r) == upper(py_str(r["Tienda"])) = S_CENDIS
             d2 == SetCol(d1, "Area",
                          [i \in 1..NRows(d1) |->
                              IF is_cendis(d1.rows[i]) THEN Txt(S_CENDIS) ELSE d1.rows[i]["Area"]])
         IN SetCol(d2, "Gerente de Area",
                   [i \in 1..NRows(d2) |->
                       IF is_cendis(d2.rows[i]) THEN Txt(<<>>) ELSE d2.rows[i]["Gerente de Area"]])

\* 16. CENDIS override
validate_cendis_area(df) ==
    IF ~HasCol(df, "Tienda") \/ ~HasCol(df, "Area") \/ ~HasCol(df, "Gerente de Area") THEN df
    ELSE LET d1 == AstypeStr(AstypeStr(AstypeStr(df, "Tienda"), "Area"), "Gerente de Area")
             is_cendis(r) == upper(strip(py_str(r["Tienda"]))) = S_CENDIS
             d2 == SetCol(d1, "Area",
                          [i \in 1..NRows(d1) |->
                              IF is_cendis(d1.rows[i]) THEN Txt(S_CENDIS) ELSE d1.rows[i]["Area"]])
         IN SetCol(d2, "Gerente de Area",
                   [i \in 1..NRows(d2) |->
                       IF is_cendis(d2.rows[i]) THEN Txt(<<>>) ELSE d2.rows[i]["Gerente de Area"]])

\* 23. "Especialista Comercial"
add_especialista_comercial_column(df, credentials, spreadsheet_id, ws) ==
    IF ~HasCol(df, "Sucursal") \/ ~credentials \/ ~spreadsheet_id
       \/ IsEmptyDict(get_especialista_mapping(ws))
    THEN SetColConst(df, "Especialista Comercial", Txt(<<>>))
    ELSE lookup_column(df, "Sucursal", "Especialista Comercial",
                       get_especialista_mapping(ws), sucursal_key)

(***************************************************************************)
(* Date range and its buckets                                              *)
(***************************************************************************)

\* faulty variant of step 17: without the reception date the range is left null
add_rango_fecha_column_nan(df, fecha_hoy) ==
    IF ~HasCol(df, "Fecha Recepción") THEN SetColConst(df, "Rango de fecha", NaN)
    ELSE LET d1 == SetCol(df, "Fecha Recepción",
                          [i \in 1..NRows(df) |-> to_datetime(df.rows[i]["Fecha Recepción"])])
         IN SetCol(d1, "Rango de fecha",
                   [i \in 1..NRows(d1) |->
                       IF notna(d1.rows[i]["Fecha Recepción"])
                       THEN Num(fecha_hoy - d1.rows[i]["Fecha Recepción"].n)
                       ELSE Num(0)])

\* 17. "Rango de fecha": (today - "Fecha Recepción").days, NaT -> 0
add_rango_fecha_column(df, fecha_hoy) ==
    IF ~HasCol(df, "Fecha Recepción") THEN SetColConst(df, "Rango de fecha", Num(0))
    ELSE LET d1 == SetCol(df, "Fecha Recepción",
                          [i \in 1..NRows(df) |-> to_datetime(df.rows[i]["Fecha Recepción"])])
         IN SetCol(d1, "Rango de fecha",
                   [i \in 1..NRows(d1) |->
                       IF notna(d1.rows[i]["Fecha Recepción"])
                       THEN Num(fecha_hoy - d1.rows[i]["Fecha Recepción"].n)
                       ELSE Num(0)])

\* the bucket columns: 1 when InRange("Rango de fecha"), else 0
rango_column(df, target, InRange(_)) ==
    IF ~HasCol(df, "Rango de fecha") THEN SetColConst(df, target, Num(0))
    ELSE LET d1 == ToNumericFillna0(df, "Rango de fecha")
         IN SetCol(d1, target,
                   [i \in 1..NRows(d1) |->
                       IF InRange(d1.rows[i]["Rango de fecha"].n) THEN Num(1) ELSE Num(0)])

\* 18.
add_rango_0_30_column(df) == rango_column(df, "0-30", LAMBDA x : x >= 0 /\ x <= 30)

\* faulty variant of step 19: the lower boundary is closed
add_rango_30_60_column_closed(df) ==
    rango_column(df, "30-60", LAMBDA x : x >= 30 /\ x <= 60)

\* 19.
add_rango_30_60_column(df) == rango_column(df, "30-60", LAMBDA x : x > 30 /\ x <= 60)

\* 20.
add_rango_60_90_column(df) == rango_column(df, "60-90", LAMBDA x : x > 60 /\ x <= 90)

\* 21.
add_rango_90_120_column(df) == rango_column(df, "90-120", LAMBDA x : x > 90 /\ x <= 120)

\* 22.
add_rango_120_plus_column(df) == rango_column(df, "+120", LAMBDA x : x > 120)

(***************************************************************************)
(* process_dataframe: the steps in their fixed order.  e is the run's      *)
(* environment: the credentials, the spreadsheet id, today's date and the  *)
(* three reference worksheets.                                             *)
(***************************************************************************)
\* step n of process_dataframe applied to df_processed
process_dataframe_step(n, df, e) ==
    CASE n = 1 -> remove_empty_rows(df)
      [] n = 2 -> remove_ndint_invoices(df)
      [] n = 3 -> add_unidad_negocio_column(df, e.credentials, e.spreadsheet_id, e.provider)
      [] n = 4 -> add_tipo_proveedor_column(df)
      [] n = 5 -> add_motivo_retencion_column(df)
      [] n = 6 -> add_validacion_oc_column(df)
      [] n = 7 -> add_diferencia_real_column(df)
      [] n = 8 -> add_valor_real_unidades_column(df)
      [] n = 9 -> add_diferencia_unidades_column(df)
      [] n = 10 -> update_motivo_retencion_after_diferencia_unidades(df)
      [] n = 11 -> add_valor_real_subtotal_column(df)
      [] n = 12 -> add_diferencia_costo_column(df)
      [] n = 13 -> fill_motivo_retencion_unidades(df)
      [] n = 14 -> add_area_column(df, e.credentials, e.spreadsheet_id, e.tienda)
      [] n = 15 -> add_gerente_area_column(df, e.credentials, e.spreadsheet_id, e.tienda)
      [] n = 16 -> validate_cendis_area(df)
      [] n = 17 -> add_rango_fecha_column(df, e.fecha_hoy)
      [] n = 18 -> add_rango_0_30_column(df)
      [] n = 19 -> add_rango_30_60_column(df)
      [] n = 20 -> add_rango_60_90_column(df)
      [] n = 21 -> add_rango_90_120_column(df)
      [] n = 22 -> add_rango_120_plus_column(df)
      [] n = 23 -> add_especialista_comercial_column(df, e.credentials, e.spreadsheet_id,
                                                     e.especialista)

\* df_processed after the first n steps; each step is applied to the value
\* the steps before it returned
RECURSIVE process_dataframe_upto(_, _, _)
process_dataframe_upto(n, df, e) ==
    IF n = 0 THEN df
    ELSE CHOOSE result \in {process_dataframe_step(n, df_processed, e) :
                                df_processed \in {process_dataframe_upto(n - 1, df, e)}} : TRUE

\* the number of steps of process_dataframe
LastStep == 23

process_dataframe(df, e) == process_dataframe_upto(LastStep, df, e)

(***************************************************************************)
(* Grist field names (api.py)                                              *)
(***************************************************************************)
\* the characters of a column name
Chars(name) ==
    CASE name = "Fecha Recepción" -> <<"F", "e", "c", "h", "a", " ", "R", "e", "c", "e", "p", "c", "i", "ó", "n">>
      [] name = "Tienda" -> <<"T", "i", "e", "n", "d", "a">>
      [] name = "Proveedor" -> <<"P", "r", "o", "v", "e", "e", "d", "o", "r">>
      [] name = "Sucursal" -> <<"S", "u", "c", "u", "r", "s", "a", "l">>
      [] name = "Número Factura" -> <<"N", "ú", "m", "e", "r", "o", " ", "F", "a", "c", "t", "u", "r", "a">>
      [] name = "Estado" -> <<"E", "s", "t", "a", "d", "o">>
      [] name = "Orden Compra" -> <<"O", "r", "d", "e", "n", " ", "C", "o", "m", "p", "r", "a">>
      [] name = "SubTotal" -> <<"S", "u", "b", "T", "o", "t", "a", "l">>
      [] name = "Costo Recepcion" -> <<"C", "o", "s", "t", "o", " ", "R", "e", "c", "e", "p", "c", "i", "o", "n">>
      [] name = "Unidades por Factura" -> <<"U", "n", "i", "d", "a", "d", "e", "s", " ", "p", "o", "r", " ", "F", "a", "c", "t", "u", "r", "a">>
      [] name = "Unidades Recibidas" -> <<"U", "n", "i", "d", "a", "d", "e", "s", " ", "R", "e", "c", "i", "b", "i", "d", "a", "s">>
      [] name = "Unidad de Negocio" -> <<"U", "n", "i", "d", "a", "d", " ", "d", "e", " ", "N", "e", "g", "o", "c", "i", "o">>
      [] name = "Tipo de Proveedor" -> <<"T", "i", "p", "o", " ", "d", "e", " ", "P", "r", "o", "v", "e", "e", "d", "o", "r">>
      [] name = "Motivo de Retención" -> <<"M", "o", "t", "i", "v", "o", " ", "d", "e", " ", "R", "e", "t", "e", "n", "c", "i", "ó", "n">>
      [] name = "Validacion de OC" -> <<"V", "a", "l", "i", "d", "a", "c", "i", "o", "n", " ", "d", "e", " ", "O", "C">>
      [] name = "Diferencia Real" -> <<"D", "i", "f", "e", "r", "e", "n", "c", "i", "a", " ", "R", "e", "a", "l">>
      [] name = "Valor Real de Unidades" -> <<"V", "a", "l", "o", "r", " ", "R", "e", "a", "l", " ", "d", "e", " ", "U", "n", "i", "d", "a", "d", "e", "s">>
      [] name = "Diferencia Unidades" -> <<"D", "i", "f", "e", "r", "e", "n", "c", "i", "a", " ", "U", "n", "i", "d", "a", "d", "e", "s">>
      [] name = "Valor Real de Subtotal" -> <<"V", "a", "l", "o", "r", " ", "R", "e", "a", "l", " ", "d", "e", " ", "S", "u", "b", "t", "o", "t", "a", "l">>
      [] name = "Diferencia Costo" -> <<"D", "i", "f", "e", "r", "e", "n", "c", "i", "a", " ", "C", "o", "s", "t", "o">>
      [] name = "Area" -> <<"A", "r", "e", "a">>
      [] name = "Gerente de Area" -> <<"G", "e", "r", "e", "n", "t", "e", " ", "d", "e", " ", "A", "r", "e", "a">>
      [] name = "Rango de fecha" -> <<"R", "a", "n", "g", "o", " ", "d", "e", " ", "f", "e", "c", "h", "a">>
      [] name = "0-30" -> <<"0", "-", "3", "0">>
      [] name = "30-60" -> <<"3", "0", "-", "6", "0">>
      [] name = "60-90" -> <<"6", "0", "-", "9", "0">>
      [] name = "90-120" -> <<"9", "0", "-", "1", "2", "0">>
      [] name = "+120" -> <<"+", "1", "2", "0">>
      [] name = "Especialista Comercial" -> <<"E", "s", "p", "e", "c", "i", "a", "l", "i", "s", "t", "a", " ", "C", "o", "m", "e", "r", "c", "i", "a", "l">>
      [] name = "Comentario" -> <<"C", "o", "m", "e", "n", "t", "a", "r", "i", "o">>
      [] name = "Comentario CXP" -> <<"C", "o", "m", "e", "n", "t", "a", "r", "i", "o", " ", "C", "X", "P">>
      [] name = "Comentario Operación" -> <<"C", "o", "m", "e", "n", "t", "a", "r", "i", "o", " ", "O", "p", "e", "r", "a", "c", "i", "ó", "n">>
      [] name = "Fecha Reporte CXP" -> <<"F", "e", "c", "h", "a", " ", "R", "e", "p", "o", "r", "t", "e", " ", "C", "X", "P">>

S_column_empty == <<"c", "o", "l", "u", "m", "n", "_", "e", "m", "p", "t", "y">>

Accented == <<"á", "é", "í", "ó", "ú", "ñ", "Á", "É", "Í", "Ó", "Ú", "Ñ">>

Unaccented == <<"a", "e", "i", "o", "u", "n", "A", "E", "I", "O", "U", "N">>

\* unicodedata.normalize('NFD', c) without its combining marks
unaccent(c) == IF IsIn(Accented, c) THEN Unaccented[IndexOf(Accented, c)] ELSE c

\* [a-zA-Z0-9_]
is_word_char(c) ==
    \/ IsIn(SubSeq(LowerLetters, 1, 26), c)
    \/ IsIn(SubSeq(UpperLetters, 1, 26), c)
    \/ IsIn(Digits, c)
    \/ c = "_"

\* re.sub(r'_+', '_', s)
RECURSIVE collapse_underscores(_)
collapse_underscores(s) ==
    IF Len(s) < 2 THEN s
    ELSE IF s[1] = "_" /\ s[2] = "_" THEN collapse_underscores(Tail(s))
         ELSE <<Head(s)>> \o collapse_underscores(Tail(s))

\* s.strip('_')
RECURSIVE strip_underscores(_)
strip_underscores(s) ==
    IF s = <<>> THEN s
    ELSE IF Head(s) = "_" THEN strip_underscores(Tail(s))
         ELSE IF s[Len(s)] = "_" THEN strip_underscores(SubSeq(s, 1, Len(s) - 1))
              ELSE s

\* A name that is left with no character at all gets a name made of its
\* hash(), which differs from process to process; no column of the model is
\* such a name, and the case is left out.
normalize_column_name_for_grist(column_name) ==
    LET col0 == strip(column_name)
        col1 == [i \in 1..Len(col0) |-> unaccent(col0[i])]
        col2 == [i \in 1..Len(col1) |-> IF col1[i] \in {" ", "-"} THEN "_" ELSE col1[i]]
        col3 == IF col2 /= <<>> /\ (IsIn(Digits, col2[1]) \/ col2[1] \in {"+", "-", "_", "."})
                THEN <<"c">> \o col2 ELSE col2
        col4 == SelectSeq(collapse_underscores(col3), is_word_char)
        col5 == strip_underscores(col4)
    IN CASE col0 = <<>> -> S_column_empty
         [] col0 /= <<>> /\ col5 /= <<>> -> col5

\* an optional value: None, or Some(x)
None == <<>>

Some(x) == <<x>>

IsNone(o) == o = <<>>

The(o) == o[1]

\* str(Timestamp.date()): the civil date of a day number, as YYYY-MM-DD
date_str(d) ==
    LET z == d + 719468
        era == z \div 146097
        doe == z - era * 146097
        yoe == (doe - doe \div 1460 + doe \div 36524 - doe \div 146096) \div 365
        doy == doe - (365 * yoe + yoe \div 4 - yoe \div 100)
        mp == (5 * doy + 2) \div 153
        day == doy - (153 * mp + 2) \div 5 + 1
        month == IF mp < 10 THEN mp + 3 ELSE mp - 9
        year == yoe + era * 400 + (IF month <= 2 THEN 1 ELSE 0)
        two(n) == IF n < 10 THEN <<"0">> \o nat_str(n) ELSE nat_str(n)
    IN nat_str(year) \o <<"-">> \o two(month) \o <<"-">> \o two(day)

\* the first occurrence of each element, in order
Dedupe(seq) ==
    LET firsts == {i \in 1..Len(seq) : \A j \in 1..(i - 1) : seq[j] /= seq[i]}
    IN [k \in 1..Cardinality(firsts) |->
           seq[CHOOSE i \in firsts : Cardinality({j \in firsts : j <= i}) = k]]

\* the two columns of df_processed whose dtype is datetime64 when the table is
\* uploaded: the one step 17 converts and the one created as pd.NaT
is_datetime64_any_dtype(col) == col \in {"Fecha Recepción", "Fecha Reporte CXP"}

\* one cell as it is sent: a datetime column goes as text, NaN goes as null
json_value(col, c) ==
    IF is_datetime64_any_dtype(col)
    THEN IF c.k = "date" THEN Txt(date_str(c.n)) ELSE Txt(S_NaT)
    ELSE c

\* the normalized name of every column, in column order
normalized_keys(cols) ==
    [i \in 1..Len(cols) |-> normalize_column_name_for_grist(Chars(cols[i]))]

\* the field names of the records sent, in order
grist_keys(df) == Dedupe(normalized_keys(df.cols))

\* a record under the normalized names keys: the value of a later column
\* replaces that of an earlier column with the same normalized name
record_with_keys(cols, keys, r) ==
    [k \in {keys[i] : i \in 1..Len(keys)} |->
        LET last == CHOOSE i \in 1..Len(keys) :
                        keys[i] = k /\ \A j \in (i + 1)..Len(keys) : keys[j] /= k
        IN json_value(cols[last], r[cols[last]])]

\* cleaned_record of one row
cleaned_record(df, r) == record_with_keys(df.cols, normalized_keys(df.cols), r)

RECURSIVE ConcatKeys(_)
ConcatKeys(records) ==
    IF records = <<>> THEN <<>> ELSE Head(records).keys \o ConcatKeys(Tail(records))

\* pd.DataFrame(records_data): the columns are the field names in the order
\* they first appear; a field a record lacks is NaN
DataFrameOfRecords(records) ==
    LET cols == Dedupe(ConcatKeys(records))
    IN [cols |-> cols,
        rows |-> [i \in 1..Len(records) |->
                    [k \in {cols[j] : j \in 1..Len(cols)} |->
                        IF k \in DOMAIN records[i].fields
                        THEN records[i].fields[k] ELSE NaN]]]

\* DataFrame.empty
empty(t) == t.cols = <<>> \/ t.rows = <<>>

(***************************************************************************)
(* Comment reconciliation (api.py).  df_old_grist is None or Some(table);   *)
(* its column names are sequences of characters.                           *)
(***************************************************************************)
S_numero_factura_acento == <<"n", "ú", "m", "e", "r", "o", " ", "f", "a", "c", "t", "u", "r", "a">>
S_numero_factura == <<"n", "u", "m", "e", "r", "o", " ", "f", "a", "c", "t", "u", "r", "a">>
S_n_factura == <<"n", "°", " ", "f", "a", "c", "t", "u", "r", "a">>
S_comentario == <<"c", "o", "m", "e", "n", "t", "a", "r", "i", "o">>
S_cxp == <<"c", "x", "p">>
S_comentario_cxp == <<"c", "o", "m", "e", "n", "t", "a", "r", "i", "o", " ", "c", "x", "p">>
S_comentario_cxp_guion == <<"c", "o", "m", "e", "n", "t", "a", "r", "i", "o", "_", "c", "x", "p">>

is_numero_factura_col(col) ==
    \E col_lower \in {lower(strip(col))} :
        \/ contains(col_lower, S_numero_factura_acento)
        \/ contains(col_lower, S_numero_factura)
        \/ contains(col_lower, S_n_factura)

is_comentario_col(col) ==
    \E col_lower \in {lower(strip(col))} :
        contains(col_lower, S_comentario) /\ ~contains(col_lower, S_cxp)

is_comentario_cxp_col(col) ==
    \E col_lower \in {lower(strip(col))} :
        contains(col_lower, S_comentario_cxp) \/ contains(col_lower, S_comentario_cxp_guion)

\* the key both sides are matched on
numero_factura_normalized(s) == upper(remove_spaces(strip(s)))

\* comentario_mapping / comentario_cxp_mapping: a row with an empty invoice
\* number or an empty comment stores nothing; a later row replaces an earlier one
comment_mapping(old, numero_factura_col, has_col, col) ==
    LET numero_factura(i) ==
            IF notna(old.rows[i][numero_factura_col])
            THEN strip(py_str(old.rows[i][numero_factura_col])) ELSE <<>>
        comentario(i) ==
            IF has_col /\ notna(old.rows[i][col]) THEN strip(py_str(old.rows[i][col]))
            ELSE <<>>
        valid == {i \in 1..NRows(old) : numero_factura(i) /= <<>> /\ comentario(i) /= <<>>}
        key(i) == numero_factura_normalized(numero_factura(i))
        last(k) == CHOOSE i \in valid : key(i) = k /\ \A j \in valid : key(j) = k => j <= i
    IN [k \in {key(i) : i \in valid} |-> comentario(last(k))]

\* both comment columns empty
empty_comentarios(df) ==
    SetColConst(SetColConst(df, "Comentario", Txt(<<>>)), "Comentario CXP", Txt(<<>>))

\* lines 654-699: the two dicts are built from the snapshot and probed with
\* every row's normalized invoice number
match_comentarios(df_processed, old) ==
    LET numero_factura_col == old.cols[FirstIndex(old.cols, is_numero_factura_col)]
        has_comentario == HasIndex(old.cols, is_comentario_col)
        comentario_col == IF has_comentario
                          THEN old.cols[FirstIndex(old.cols, is_comentario_col)]
                          ELSE numero_factura_col
        has_cxp == HasIndex(old.cols, is_comentario_cxp_col)
        comentario_cxp_col == IF has_cxp
                              THEN old.cols[FirstIndex(old.cols, is_comentario_cxp_col)]
                              ELSE numero_factura_col
        comentario_mapping ==
            comment_mapping(old, numero_factura_col, has_comentario, comentario_col)
        comentario_cxp_mapping ==
            comment_mapping(old, numero_factura_col, has_cxp, comentario_cxp_col)
        d1 == AstypeStr(empty_comentarios(df_processed), "Número Factura")
        probe(r, mapping) ==
            LET k == numero_factura_normalized(py_str(r["Número Factura"]))
            IN IF k \in DOMAIN mapping THEN Txt(mapping[k]) ELSE Txt(<<>>)
        d2 == SetCol(d1, "Comentario",
                     [i \in 1..NRows(d1) |-> probe(d1.rows[i], comentario_mapping)])
    IN SetCol(d2, "Comentario CXP",
              [i \in 1..NRows(d2) |-> probe(d2.rows[i], comentario_cxp_mapping)])

\* faulty variant: without an invoice column in the snapshot the table is
\* returned as it came
add_comentarios_from_grist_bare_return(df_processed, df_old_grist) ==
    IF ~HasCol(df_processed, "Número Factura") THEN empty_comentarios(df_processed)
    ELSE IF IsNone(df_old_grist) \/ empty(The(df_old_grist))
         THEN empty_comentarios(df_processed)
         ELSE IF ~HasIndex(The(df_old_grist).cols, is_numero_factura_col)
              THEN df_processed
              ELSE match_comentarios(df_processed, The(df_old_grist))

add_comentarios_from_grist(df_processed, df_old_grist) ==
    IF ~HasCol(df_processed, "Número Factura") THEN empty_comentarios(df_processed)
    ELSE IF IsNone(df_old_grist) \/ empty(The(df_old_grist))
         THEN empty_comentarios(df_processed)
         ELSE IF ~HasIndex(The(df_old_grist).cols, is_numero_factura_col)
              THEN empty_comentarios(df_processed)
              ELSE match_comentarios(df_processed, The(df_old_grist))

(***************************************************************************)
(* Input values of the model                                               *)
(***************************************************************************)
V_NDINT_55 == <<"N", "D", "I", "N", "T", "-", "5", "5">>
V_ndint_5 == <<"n", "d", "i", "n", "t", "-", "5">>
V_sp_NDINT_7 == <<" ", "N", "D", "I", "N", "T", "-", "7">>
V_A_100 == <<"A", "-", "1", "0", "0">>
V_a_100_sp == <<" ", "a", "-", "1", "0", "0", " ">>
V_B_2 == <<"B", "-", "2">>
V_ACME == <<"A", "C", "M", "E">>
V_acme_ppv2 == <<" ", "a", "c", "m", "e", " ", "p", "p", "v", "2", " ">>
V_Acme_PPV2 == <<"A", "c", "m", "e", " ", "P", "P", "V", "2">>
V_cendis == <<" ", "C", "e", "n", "d", "i", "s", " ">>
V_T_1 == <<"T", " ", "1">>
V_t1 == <<"t", "1">>
V_estado_imp == <<" ", "D", "I", "S", "C", "R", "E", "P", "A", "N", "C", "I", "A", " ", "D", "E", " ", "I", "M", "P", "U", "E", "S", "T", "O", " ">>
V_estado_lower == <<"D", "i", "s", "c", "r", "e", "p", "a", "n", "c", "i", "a", " ", "d", "e", " ", "i", "m", "p", "u", "e", "s", "t", "o">>
V_OC1 == <<"O", "C", "1">>
V_7 == <<"7">>
V_x == <<"x">>
V_3 == <<"3">>
V_guion == <<"-">>
V_s_n == <<"s", "/", "n">>
V_Proveedor == <<"P", "r", "o", "v", "e", "e", "d", "o", "r", " ", "U", "n", "o">>
V_Alimentos == <<"A", "l", "i", "m", "e", "n", "t", "o", "s">>
V_Norte == <<"N", "o", "r", "t", "e">>
V_Ana == <<"A", "n", "a">>
V_Luis == <<"L", "u", "i", "s">>
H_Area == <<"Á", "r", "e", "a">>
H_Gte_Area == <<"G", "t", "e", " ", "Á", "r", "e", "a">>
H_Especialista == <<"E", "s", "p", "e", "c", "i", "a", "l", "i", "s", "t", "a">>
H_Estatus == <<"E", "s", "t", "a", "t", "u", "s">>

\* the day the run happens, in days since 1970-01-01
Today == 20000

\* most rows of a table drawn at Init
MaxRows == 2

\* most rows of a table of the row-filter family
MaxFilterRows == 3

\* the R011 columns the pipeline reads, and one it only carries along
InputCols == <<"Fecha Recepción", "Tienda", "Proveedor", "Sucursal", "Número Factura",
               "Estado", "Orden Compra", "SubTotal", "Costo Recepcion",
               "Unidades por Factura", "Unidades Recibidas">>

InputColSet == {InputCols[i] : i \in 1..Len(InputCols)}

Row(factura, sucursal, tienda, estado, orden, unidades, recibidas, subtotal, fecha) ==
    [c \in InputColSet |->
        CASE c = "Número Factura" -> factura
          [] c = "Sucursal" -> sucursal
          [] c = "Tienda" -> tienda
          [] c = "Estado" -> estado
          [] c = "Orden Compra" -> orden
          [] c = "Unidades por Factura" -> unidades
          [] c = "Unidades Recibidas" -> recibidas
          [] c = "SubTotal" -> subtotal
          [] c = "Costo Recepcion" -> Num(10)
          [] c = "Fecha Recepción" -> fecha
          [] c = "Proveedor" -> Txt(V_Proveedor)]

\* an Excel row with no cell filled in
BlankRow == [c \in InputColSet |-> NaN]

\* rows that differ in the invoice number (steps 1 and 2)
FilterFamily ==
    {Row(f, Txt(V_ACME), Txt(V_T_1), Txt(V_estado_lower), Txt(V_OC1), Num(2), Num(2),
         Num(10), Date(Today - 5)) :
       f \in {NaN, Num(55), Txt(V_NDINT_55), Txt(V_ndint_5), Txt(V_sp_NDINT_7)}}
    \cup {BlankRow}

\* rows that differ in what decides the provider type
TipoFamily ==
    {Row(Txt(V_A_100), s, t, Txt(V_estado_lower), Txt(V_OC1), Num(2), Num(2), Num(10),
         Date(Today - 5)) :
       s \in {Txt(V_ACME), Txt(V_acme_ppv2), NaN}, t \in {Txt(V_cendis), Txt(V_T_1)}}

\* rows that differ in what decides the retention reason
MotivoFamily ==
    {Row(Txt(V_A_100), s, Txt(V_T_1), e, Txt(V_OC1), Num(2), r, Num(10), Date(Today - 5)) :
       s \in {Txt(V_ACME), Txt(V_acme_ppv2)},
       e \in {Txt(V_estado_imp), Txt(V_estado_lower)}, r \in {Num(2), Num(4)}}

\* rows that differ in the purchase order and its units, some of them filtered out
AggFamily ==
    {Row(f, Txt(V_ACME), Txt(V_T_1), Txt(V_estado_lower), o, u, Num(2), Num(10),
         Date(Today - 5)) :
       f \in {Txt(V_A_100)}, o \in {Txt(V_7), Num(7), NaN},
       u \in {Num(2), Txt(V_3), Txt(V_x)}}
    \cup {Row(Txt(V_NDINT_55), Txt(V_ACME), Txt(V_T_1), Txt(V_estado_lower), Txt(V_7), u,
               Num(2), Num(10), Date(Today - 5)) : u \in {Num(2), Txt(V_3), Txt(V_x)}}
    \cup {BlankRow}

\* rows that differ in how their numeric cells coerce
CoerceFamily ==
    {Row(Txt(V_A_100), NaN, NaN, NaN, Txt(V_OC1), u, r, Num(10), Date(Today - 5)) :
       u \in {Num(2), NaN}, r \in {Num(2), Txt(V_guion), NaN}}
    \cup {Row(Txt(V_A_100), NaN, NaN, NaN, Txt(V_OC1), Num(2), Num(2), Txt(V_x),
               Date(Today - 5))}

\* rows that differ in the reception date
FechaFamily ==
    {Row(Txt(V_A_100), Txt(V_ACME), Txt(V_T_1), Txt(V_estado_lower), Txt(V_OC1), Num(2),
         Num(2), Num(10), f) :
       f \in {Date(Today - d) : d \in {-1, 0, 30, 31, 60, 61, 90, 91, 120, 121}}
             \cup {NaN, Txt(V_s_n), Num(5)}}

SeqsUpTo(S, n) == UNION {[1..m -> S] : m \in 0..n}

InputRowSeqs ==
    SeqsUpTo(FilterFamily, MaxFilterRows) \cup SeqsUpTo(TipoFamily, MaxRows)
    \cup SeqsUpTo(MotivoFamily, MaxRows)
    \cup SeqsUpTo(AggFamily, MaxRows) \cup SeqsUpTo(CoerceFamily, MaxRows)
    \cup SeqsUpTo(FechaFamily, MaxRows)

\* the reference worksheets of the run
ProviderSheet ==
    [ok |-> TRUE,
     values |-> << <<S_NOMBRE_PROVEEDOR, S_UNIDAD_DE_NEGOCIO>>,
                   <<V_ACME, V_Alimentos>>,
                   <<V_Acme_PPV2, V_Norte>> >>]

TiendaSheet ==
    [ok |-> TRUE,
     values |-> << <<H_Estatus, S_Tienda, H_Area, H_Gte_Area>>,
                   <<V_x, V_t1, V_Norte, V_Ana>>,
                   <<V_x, S_CENDIS, V_Norte, V_Luis>> >>]

EspecialistaSheet ==
    [ok |-> TRUE,
     values |-> << <<S_SUCURSAL, H_Especialista>>,
                   <<V_Acme_PPV2, V_Luis>> >>]

(***************************************************************************)
(* State                                                                   *)
(***************************************************************************)
VARIABLES
    pc,           \* the function or handler stage about to run
    input,        \* the DataFrame read from the uploaded file
    df,           \* df_processed
    env,          \* credentials, configuration and reference worksheets of the run
    grist,        \* the records of the destination table, each [id, keys, fields]
    df_old_grist, \* process_file's snapshot of the destination table, or None
    locals,       \* process_file's response_data['uploads'], and process_grist's
                  \* ids_a_borrar, i, uploaded_rows, failed_batches and result
    response,     \* status of the last HTTP response of /process, 0 before any
    budget        \* requests, edits by hand and failed HTTP calls so far

vars == <<pc, input, df, env, grist, df_old_grist, locals, response, budget>>

Env0 == [credentials |-> TRUE, spreadsheet_id |-> TRUE, fecha_hoy |-> Today,
         provider |-> ProviderSheet, tienda |-> TiendaSheet,
         especialista |-> EspecialistaSheet, grist_configured |-> TRUE,
         storage_bucket |-> TRUE]

\* response_data['uploads'] before any upload stage has run
Uploads0 == [storage |-> "unset", grist |-> "unset", bigquery |-> "unset"]

\* process_grist's result dict and loop variables as they are initialised, and
\* process_file's uploads
Locals0 == [ids_a_borrar |-> <<>>, i |-> 0, uploaded_rows |-> 0,
            success |-> TRUE, grist_old_data_rows |-> 0, grist_old_data_saved |-> FALSE,
            grist_cleared |-> FALSE, grist_new_data_uploaded |-> FALSE, errors |-> 0,
            failed_batches |-> <<>>, result_failed_batches |-> <<>>,
            uploads |-> Uploads0]

Budget0 == [runs |-> 0, edits |-> 0, faults |-> 0]

\* process_dataframe is entered with a table read from an R011 file
Init ==
    /\ pc = "remove_empty_rows"
    /\ \E rows \in InputRowSeqs : input = [cols |-> InputCols, rows |-> rows]
    /\ df = input
    /\ env = Env0
    /\ grist = <<>>
    /\ df_old_grist = None
    /\ locals = Locals0
    /\ response = 0
    /\ budget = Budget0

\* one step of process_dataframe: df_processed = f(df_processed)
Step(at, result, next) ==
    /\ pc = at
    /\ df' = result
    /\ pc' = next
    /\ UNCHANGED <<input, env, grist, df_old_grist, locals, response, budget>>

RemoveEmptyRows ==
    Step("remove_empty_rows", remove_empty_rows(df), "remove_ndint_invoices")

RemoveNdintInvoices ==
    Step("remove_ndint_invoices", remove_ndint_invoices(df), "add_unidad_negocio_column")

AddUnidadNegocioColumn ==
    Step("add_unidad_negocio_column",
         add_unidad_negocio_column(df, env.credentials, env.spreadsheet_id, env.provider),
         "add_tipo_proveedor_column")

AddTipoProveedorColumn ==
    Step("add_tipo_proveedor_column", add_tipo_proveedor_column(df),
         "add_motivo_retencion_column")

AddMotivoRetencionColumn ==
    Step("add_motivo_retencion_column", add_motivo_retencion_column(df),
         "add_validacion_oc_column")

AddValidacionOcColumn ==
    Step("add_validacion_oc_column", add_validacion_oc_column(df),
         "add_diferencia_real_column")

AddDiferenciaRealColumn ==
    Step("add_diferencia_real_column", add_diferencia_real_column(df),
         "add_valor_real_unidades_column")

AddValorRealUnidadesColumn ==
    Step("add_valor_real_unidades_column", add_valor_real_unidades_column(df),
         "add_diferencia_unidades_column")

AddDiferenciaUnidadesColumn ==
    Step("add_diferencia_unidades_column", add_diferencia_unidades_column(df),
         "update_motivo_retencion_after_diferencia_unidades")

UpdateMotivoRetencionAfterDiferenciaUnidades ==
    Step("update_motivo_retencion_after_diferencia_unidades",
         update_motivo_retencion_after_diferencia_unidades(df),
         "add_valor_real_subtotal_column")

AddValorRealSubtotalColumn ==
    Step("add_valor_real_subtotal_column", add_valor_real_subtotal_column(df),
         "add_diferencia_costo_column")

AddDiferenciaCostoColumn ==
    Step("add_diferencia_costo_column", add_diferencia_costo_column(df),
         "fill_motivo_retencion_unidades")

FillMotivoRetencionUnidades ==
    Step("fill_motivo_retencion_unidades", fill_motivo_retencion_unidades(df),
         "add_area_column")

AddAreaColumn ==
    Step("add_area_column",
         add_area_column(df, env.credentials, env.spreadsheet_id, env.tienda),
         "add_gerente_area_column")

AddGerenteAreaColumn ==
    Step("add_gerente_area_column",
         add_gerente_area_column(df, env.credentials, env.spreadsheet_id, env.tienda),
         "validate_cendis_area")

ValidateCendisArea ==
    Step("validate_cendis_area", validate_cendis_area(df), "add_rango_fecha_column")

AddRangoFechaColumn ==
    Step("add_rango_fecha_column", add_rango_fecha_column(df, env.fecha_hoy),
         "add_rango_0_30_column")

AddRango0_30Column ==
    Step("add_rango_0_30_column", add_rango_0_30_column(df), "add_rango_30_60_column")

AddRango30_60Column ==
    Step("add_rango_30_60_column", add_rango_30_60_column(df), "add_rango_60_90_column")

AddRango60_90Column ==
    Step("add_rango_60_90_column", add_rango_60_90_column(df), "add_rango_90_120_column")

AddRango90_120Column ==
    Step("add_rango_90_120_column", add_rango_90_120_column(df), "add_rango_120_plus_column")

AddRango120PlusColumn ==
    Step("add_rango_120_plus_column", add_rango_120_plus_column(df),
         "add_especialista_comercial_column")

AddEspecialistaComercialColumn ==
    Step("add_especialista_comercial_column",
         add_especialista_comercial_column(df, env.credentials, env.spreadsheet_id,
                                           env.especialista),
         "returned")

\* process_dataframe, from its first step to its return
Next ==
    \/ RemoveEmptyRows
    \/ RemoveNdintInvoices
    \/ AddUnidadNegocioColumn
    \/ AddTipoProveedorColumn
    \/ AddMotivoRetencionColumn
    \/ AddValidacionOcColumn
    \/ AddDiferenciaRealColumn
    \/ AddValorRealUnidadesColumn
    \/ AddDiferenciaUnidadesColumn
    \/ UpdateMotivoRetencionAfterDiferenciaUnidades
    \/ AddValorRealSubtotalColumn
    \/ AddDiferenciaCostoColumn
    \/ FillMotivoRetencionUnidades
    \/ AddAreaColumn
    \/ AddGerenteAreaColumn
    \/ ValidateCendisArea
    \/ AddRangoFechaColumn
    \/ AddRango0_30Column
    \/ AddRango30_60Column
    \/ AddRango60_90Column
    \/ AddRango90_120Column
    \/ AddRango120PlusColumn
    \/ AddEspecialistaComercialColumn

Spec == Init /\ [][Next]_vars

(***************************************************************************)
(* The /process handler and the destination table                          *)
(***************************************************************************)
V_hello == <<"h", "e", "l", "l", "o">>

\* most rows of an uploaded file
MaxUploadRows == 1

\* most /process requests of a behaviour
MaxRuns == 2

\* most cells edited by hand in the destination table
MaxEdits == 1

\* most failures of collaborators and of the handler in a behaviour
MaxFaults == 2

\* rows per POST of new records
batch_size == 500

UploadFamily ==
    {Row(f, Txt(V_ACME), Txt(V_T_1), Txt(V_estado_lower), Txt(V_OC1), Num(2), Num(2),
         Num(10), Date(Today - 5)) :
       f \in {Txt(V_A_100), Txt(V_a_100_sp), Txt(V_B_2)}}

\* a table as read from a file that has no column c
WithoutColumn(t, c) ==
    [cols |-> SelectSeq(t.cols, LAMBDA x : x /= c),
     rows |-> [i \in 1..NRows(t) |->
                 [x \in (DOMAIN t.rows[i]) \ {c} |-> t.rows[i][x]]]]

\* the files uploaded: R011 tables, and one that lacks the invoice column
Uploads ==
    {[cols |-> InputCols, rows |-> rows] : rows \in SeqsUpTo(UploadFamily, MaxUploadRows)}
    \cup {WithoutColumn([cols |-> InputCols, rows |-> <<r>>], "Número Factura") :
            r \in {Row(Txt(V_A_100), Txt(V_ACME), Txt(V_T_1), Txt(V_estado_lower),
                       Txt(V_OC1), Num(2), Num(2), Num(10), Date(Today - 5))}}

\* the environments of the server: with and without the GRIST_* variables, and
\* without GCS_BUCKET_NAME
ProcessEnvs ==
    {[Env0 EXCEPT !.grist_configured = configured] : configured \in BOOLEAN}
    \cup {[Env0 EXCEPT !.storage_bucket = FALSE]}

\* process_dataframe(t, e) of every upload t in every environment e, as a table
ProcessedUploads == [e \in ProcessEnvs |-> [t \in Uploads |-> process_dataframe(t, e)]]

\* the server is up, no request in progress, the destination table empty
InitProcess ==
    /\ pc = "idle"
    /\ input = [cols |-> InputCols, rows |-> <<>>]
    /\ df = input
    /\ env \in ProcessEnvs
    /\ grist = <<>>
    /\ df_old_grist = None
    /\ locals = Locals0
    /\ response = 0
    /\ budget = Budget0

CanFail == budget.faults < MaxFaults

Fault == budget' = [budget EXCEPT !.faults = @ + 1]

\* process_file, lines 252-332: a file is accepted, read and run through
\* process_dataframe
ProcessRequest ==
    /\ pc = "idle"
    /\ budget.runs < MaxRuns
    /\ \E t \in Uploads : input' = t /\ df' = ProcessedUploads[env][t]
    /\ df_old_grist' = None
    /\ locals' = Locals0
    /\ response' = 0
    /\ budget' = [budget EXCEPT !.runs = @ + 1]
    /\ pc' = "get_old_grist"
    /\ UNCHANGED <<env, grist>>

\* process_file, lines 254-305: no file, no file name, no Excel name, no bytes
RejectRequest ==
    /\ pc = "idle"
    /\ response' = 400
    /\ UNCHANGED <<pc, input, df, env, grist, df_old_grist, locals, budget>>

\* process_file, lines 334-373: the snapshot is read before anything is deleted
GetOldGrist ==
    /\ pc = "get_old_grist"
    /\ \/ /\ env.grist_configured
          /\ df_old_grist' = IF grist = <<>> THEN None ELSE Some(DataFrameOfRecords(grist))
          /\ UNCHANGED budget
       \/ /\ env.grist_configured /\ CanFail
          /\ df_old_grist' = None
          /\ Fault
       \/ /\ ~env.grist_configured
          /\ df_old_grist' = None
          /\ UNCHANGED budget
    /\ pc' = "reconcile"
    /\ UNCHANGED <<input, df, env, grist, locals, response>>

\* process_file, lines 375-398: the comments are merged and the two extra
\* columns added
reconcile_comentarios(df_processed, old_grist) ==
    LET d1 == IF ~IsNone(old_grist) /\ ~empty(The(old_grist))
              THEN add_comentarios_from_grist(df_processed, old_grist)
              ELSE empty_comentarios(df_processed)
        d2 == IF ~HasCol(d1, "Comentario Operación")
              THEN SetColConst(d1, "Comentario Operación", Txt(<<>>)) ELSE d1
    IN IF ~HasCol(d2, "Fecha Reporte CXP")
       THEN SetColConst(d2, "Fecha Reporte CXP", NaN) ELSE d2

\* process_file, lines 375-410: the comments are merged, the two extra columns
\* added, the workbook written
Reconcile ==
    /\ pc = "reconcile"
    /\ df' = reconcile_comentarios(df, df_old_grist)
    /\ pc' = "upload_to_storage"
    /\ UNCHANGED <<input, env, grist, df_old_grist, locals, response, budget>>

\* process_file, lines 517-524: an exception raised inside the handler (the
\* upload cannot be parsed, the workbook cannot be written, the workbook cannot
\* be read back for the warehouse) is answered with the JSON error of status 500
ProcessingFailed ==
    /\ \/ pc = "idle" /\ UNCHANGED budget
       \/ pc \in {"reconcile", "upload_to_bigquery"} /\ CanFail /\ Fault
    /\ response' = 500
    /\ pc' = "idle"
    /\ locals' = Locals0
    /\ UNCHANGED <<input, df, env, grist, df_old_grist>>

\* faulty variant of the storage stage: a refused upload is raised to the
\* handler, which answers 500 and attempts nothing more
UploadToStorage_raise ==
    /\ pc = "upload_to_storage"
    /\ \/ /\ env.storage_bucket
          /\ locals' = [locals EXCEPT !.uploads.storage = "ok"]
          /\ pc' = IF env.grist_configured THEN "process_grist" ELSE "grist_result"
          /\ UNCHANGED <<budget, response>>
       \/ /\ env.storage_bucket /\ CanFail
          /\ locals' = Locals0
          /\ pc' = "idle"
          /\ response' = 500
          /\ Fault
       \/ /\ ~env.storage_bucket
          /\ locals' = [locals EXCEPT !.uploads.storage = "not_configured"]
          /\ pc' = IF env.grist_configured THEN "process_grist" ELSE "grist_result"
          /\ UNCHANGED <<budget, response>>
    /\ UNCHANGED <<input, df, env, grist, df_old_grist>>

\* process_file, lines 412-479: the workbook goes to the bucket; a refusal is
\* recorded in uploads and the run goes on with the destination table
UploadToStorage ==
    /\ pc = "upload_to_storage"
    /\ \/ /\ env.storage_bucket
          /\ locals' = [locals EXCEPT !.uploads.storage = "ok"]
          /\ UNCHANGED budget
       \/ /\ env.storage_bucket /\ CanFail
          /\ locals' = [locals EXCEPT !.uploads.storage = "failed"]
          /\ Fault
       \/ /\ ~env.storage_bucket
          /\ locals' = [locals EXCEPT !.uploads.storage = "not_configured"]
          /\ UNCHANGED budget
    /\ pc' = IF env.grist_configured THEN "process_grist" ELSE "grist_result"
    /\ UNCHANGED <<input, df, env, grist, df_old_grist, response>>

\* faulty variant of the first step of process_grist: a refused read of the
\* table is recorded and the function goes on to the delete
GristSnapshot_skip ==
    /\ pc = "process_grist"
    /\ \/ /\ ~IsNone(df_old_grist)
          /\ locals' = [locals EXCEPT !.grist_old_data_rows = NRows(The(df_old_grist)),
                                      !.grist_old_data_saved = TRUE]
          /\ pc' = "grist_get_ids"
          /\ UNCHANGED budget
       \/ /\ IsNone(df_old_grist)
          /\ locals' = IF grist = <<>> THEN locals
                       ELSE [locals EXCEPT !.grist_old_data_rows = Len(grist),
                                           !.grist_old_data_saved = TRUE]
          /\ pc' = IF grist = <<>> THEN "grist_delete" ELSE "grist_get_ids"
          /\ UNCHANGED budget
       \/ /\ IsNone(df_old_grist) /\ CanFail
          /\ locals' = [locals EXCEPT !.success = FALSE, !.errors = @ + 1]
          /\ pc' = "grist_get_ids"
          /\ Fault
    /\ UNCHANGED <<input, df, env, grist, df_old_grist, response>>

\* process_grist, lines 721-791: the snapshot handed in is used, or one is
\* read; an empty answer leaves nothing to delete
GristSnapshot ==
    /\ pc = "process_grist"
    /\ \/ /\ ~IsNone(df_old_grist)
          /\ locals' = [locals EXCEPT !.grist_old_data_rows = NRows(The(df_old_grist)),
                                      !.grist_old_data_saved = TRUE]
          /\ pc' = "grist_get_ids"
          /\ UNCHANGED budget
       \/ /\ IsNone(df_old_grist)
          /\ locals' = IF grist = <<>> THEN locals
                       ELSE [locals EXCEPT !.grist_old_data_rows = Len(grist),
                                           !.grist_old_data_saved = TRUE]
          /\ pc' = IF grist = <<>> THEN "grist_delete" ELSE "grist_get_ids"
          /\ UNCHANGED budget
       \/ /\ IsNone(df_old_grist) /\ CanFail
          /\ locals' = [locals EXCEPT !.success = FALSE, !.errors = @ + 1]
          /\ pc' = "grist_result"
          /\ Fault
    /\ UNCHANGED <<input, df, env, grist, df_old_grist, response>>

\* process_grist, lines 792-801: with a snapshot at hand, the ids to delete are
\* read with a request of their own; a failure of that request is silent
GristGetIds ==
    /\ pc = "grist_get_ids"
    /\ \/ /\ locals' = [locals EXCEPT !.ids_a_borrar = [j \in 1..Len(grist) |-> grist[j].id]]
          /\ UNCHANGED budget
       \/ /\ CanFail
          /\ locals' = [locals EXCEPT !.ids_a_borrar = <<>>]
          /\ Fault
    /\ pc' = "grist_delete"
    /\ UNCHANGED <<input, df, env, grist, df_old_grist, response>>

\* process_grist, lines 803-822: the rows read are deleted; a refusal is
\* recorded and the upload goes on
GristDelete ==
    /\ pc = "grist_delete"
    /\ \/ /\ locals.ids_a_borrar /= <<>>
          /\ grist' = SelectSeq(grist, LAMBDA g : ~IsIn(locals.ids_a_borrar, g.id))
          /\ locals' = [locals EXCEPT !.grist_cleared = TRUE, !.i = 0, !.uploaded_rows = 0]
          /\ UNCHANGED budget
       \/ /\ locals.ids_a_borrar /= <<>> /\ CanFail
          /\ locals' = [locals EXCEPT !.errors = @ + 1, !.i = 0, !.uploaded_rows = 0]
          /\ Fault
          /\ UNCHANGED grist
       \/ /\ locals.ids_a_borrar = <<>>
          /\ locals' = [locals EXCEPT !.grist_cleared = TRUE, !.i = 0, !.uploaded_rows = 0]
          /\ UNCHANGED <<grist, budget>>
    /\ pc' = "grist_upload"
    /\ UNCHANGED <<input, df, env, df_old_grist, response>>

Min2(a, b) == IF a <= b THEN a ELSE b

\* the destination numbers a new record after the highest id it holds
NextId(records) ==
    IF records = <<>> THEN 1
    ELSE 1 + (CHOOSE m \in {records[j].id : j \in 1..Len(records)} :
                 \A j \in 1..Len(records) : records[j].id <= m)

\* faulty variant of the batch loop: a failed batch ends the loop
GristUploadBatch_break ==
    /\ pc = "grist_upload"
    /\ locals.i < NRows(df)
    /\ \E first_id \in {NextId(grist)}, keys \in {grist_keys(df)},
          column_mapping \in {normalized_keys(df.cols)} :
       LET batch == SubSeq(df.rows, locals.i + 1, Min2(locals.i + batch_size, NRows(df)))
           records == [j \in 1..Len(batch) |->
                          [id |-> first_id + j - 1,
                           keys |-> keys,
                           fields |-> record_with_keys(df.cols, column_mapping, batch[j])]]
       IN \/ /\ grist' = grist \o records
             /\ locals' = [locals EXCEPT !.uploaded_rows = @ + Len(batch),
                                         !.i = @ + batch_size]
             /\ UNCHANGED budget
          \/ /\ CanFail
             /\ locals' = [locals EXCEPT
                              !.errors = @ + 1, !.i = NRows(df),
                              !.failed_batches =
                                  Append(@, [batch |-> (locals.i \div batch_size) + 1,
                                             rows |-> Len(batch)])]
             /\ Fault
             /\ UNCHANGED grist
    /\ UNCHANGED <<pc, input, df, env, df_old_grist, response>>

\* faulty variant of the batch loop: the slice of a batch runs one row into the
\* next batch
GristUploadBatch_overlap ==
    /\ pc = "grist_upload"
    /\ locals.i < NRows(df)
    /\ \E first_id \in {NextId(grist)}, keys \in {grist_keys(df)},
          column_mapping \in {normalized_keys(df.cols)} :
       LET batch == SubSeq(df.rows, locals.i + 1, Min2(locals.i + batch_size + 1, NRows(df)))
           records == [j \in 1..Len(batch) |->
                          [id |-> first_id + j - 1,
                           keys |-> keys,
                           fields |-> record_with_keys(df.cols, column_mapping, batch[j])]]
       IN \/ /\ grist' = grist \o records
             /\ locals' = [locals EXCEPT !.uploaded_rows = @ + Len(batch),
                                         !.i = @ + batch_size]
             /\ UNCHANGED budget
          \/ /\ CanFail
             /\ locals' = [locals EXCEPT
                              !.errors = @ + 1, !.i = @ + batch_size,
                              !.failed_batches =
                                  Append(@, [batch |-> (locals.i \div batch_size) + 1,
                                             rows |-> Len(batch)])]
             /\ Fault
             /\ UNCHANGED grist
    /\ UNCHANGED <<pc, input, df, env, df_old_grist, response>>

\* process_grist, lines 899-1087: one pass of the batch loop
GristUploadBatch ==
    /\ pc = "grist_upload"
    /\ locals.i < NRows(df)
    /\ \E first_id \in {NextId(grist)}, keys \in {grist_keys(df)},
          column_mapping \in {normalized_keys(df.cols)} :
       LET batch == SubSeq(df.rows, locals.i + 1, Min2(locals.i + batch_size, NRows(df)))
           records == [j \in 1..Len(batch) |->
                          [id |-> first_id + j - 1,
                           keys |-> keys,
                           fields |-> record_with_keys(df.cols, column_mapping, batch[j])]]
       IN \/ /\ grist' = grist \o records
             /\ locals' = [locals EXCEPT !.uploaded_rows = @ + Len(batch),
                                         !.i = @ + batch_size]
             /\ UNCHANGED budget
          \/ /\ CanFail
             /\ locals' = [locals EXCEPT
                              !.errors = @ + 1, !.i = @ + batch_size,
                              !.failed_batches =
                                  Append(@, [batch |-> (locals.i \div batch_size) + 1,
                                             rows |-> Len(batch)])]
             /\ Fault
             /\ UNCHANGED grist
    /\ UNCHANGED <<pc, input, df, env, df_old_grist, response>>

\* process_grist, lines 1089-1149: the loop is over, the result is settled.
\* The history dataset is not configured in the runs of the model, so step 4
\* uploads nothing.
GristFinish ==
    /\ pc = "grist_upload"
    /\ locals.i >= NRows(df)
    /\ locals' = IF locals.uploaded_rows = NRows(df)
                 THEN [locals EXCEPT !.grist_new_data_uploaded = TRUE]
                 ELSE IF locals.uploaded_rows > 0
                      THEN [locals EXCEPT !.grist_new_data_uploaded = TRUE,
                                          !.success = FALSE,
                                          !.result_failed_batches = locals.failed_batches]
                      ELSE [locals EXCEPT !.grist_new_data_uploaded = FALSE,
                                          !.success = FALSE]
    /\ pc' = "grist_result"
    /\ UNCHANGED <<input, df, env, grist, df_old_grist, response, budget>>

\* process_file, lines 463-479: what process_grist returned, or that the
\* destination is not configured, is put into uploads
GristResult ==
    /\ pc = "grist_result"
    /\ locals' = [locals EXCEPT !.uploads.grist =
                     IF env.grist_configured THEN "result" ELSE "not_configured"]
    /\ pc' = "upload_to_bigquery"
    /\ UNCHANGED <<input, df, env, grist, df_old_grist, response, budget>>

\* process_file, lines 481-509: the warehouse upload, when the request asks for
\* it; upload_to_bigquery answers False when it fails
UploadToBigquery ==
    /\ pc = "upload_to_bigquery"
    /\ \/ /\ \E outcome \in {"not_requested", "missing_ids", "ok"} :
                locals' = [locals EXCEPT !.uploads.bigquery = outcome]
          /\ UNCHANGED budget
       \/ /\ CanFail
          /\ locals' = [locals EXCEPT !.uploads.bigquery = "failed"]
          /\ Fault
    /\ pc' = "respond"
    /\ UNCHANGED <<input, df, env, grist, df_old_grist, response>>

\* process_file, line 515: the JSON answer; the handler's locals end with it
Respond ==
    /\ pc = "respond"
    /\ response' = 200
    /\ pc' = "idle"
    /\ locals' = Locals0
    /\ UNCHANGED <<input, df, env, grist, df_old_grist, budget>>

FieldComentario == normalize_column_name_for_grist(Chars("Comentario"))

FieldComentarioCXP == normalize_column_name_for_grist(Chars("Comentario CXP"))

FieldNumeroFactura == normalize_column_name_for_grist(Chars("Número Factura"))

\* between two requests somebody types a comment into a record of the
\* destination table
HumanEdit ==
    /\ pc = "idle"
    /\ budget.edits < MaxEdits
    /\ \E j \in 1..Len(grist) : \E f \in {FieldComentario, FieldComentarioCXP} :
          /\ f \in DOMAIN grist[j].fields
          /\ grist' = [grist EXCEPT ![j].fields[f] = Txt(V_hello)]
    /\ budget' = [budget EXCEPT !.edits = @ + 1]
    /\ UNCHANGED <<pc, input, df, env, df_old_grist, locals, response>>

NextProcess ==
    \/ ProcessRequest
    \/ RejectRequest
    \/ GetOldGrist
    \/ Reconcile
    \/ ProcessingFailed
    \/ UploadToStorage
    \/ GristSnapshot
    \/ GristGetIds
    \/ GristDelete
    \/ GristUploadBatch
    \/ GristFinish
    \/ GristResult
    \/ UploadToBigquery
    \/ Respond
    \/ HumanEdit

SpecProcess == InitProcess /\ [][NextProcess]_vars

(***************************************************************************)
(* /process while the destination table is being edited                    *)
(***************************************************************************)
\* the destination is a shared document: somebody types a comment into one
\* of its records while a request is being handled
ConcurrentEdit ==
    /\ pc /= "idle"
    /\ budget.edits < MaxEdits
    /\ \E j \in 1..Len(grist) : \E f \in {FieldComentario, FieldComentarioCXP} :
          /\ f \in DOMAIN grist[j].fields
          /\ grist' = [grist EXCEPT ![j].fields[f] = Txt(V_hello)]
    /\ budget' = [budget EXCEPT !.edits = @ + 1]
    /\ UNCHANGED <<pc, input, df, env, df_old_grist, locals, response>>

NextInterleaved == NextProcess \/ ConcurrentEdit

SpecInterleaved == InitProcess /\ [][NextInterleaved]_vars

(***************************************************************************)
(* The comment merge of /process on its own: a request that has been read  *)
(* and processed meets a snapshot of records an earlier request wrote      *)
(***************************************************************************)
\* the records process_grist posts for the table t, numbered from 1
records_of(t) ==
    [j \in 1..NRows(t) |->
        [id |-> j, keys |-> grist_keys(t), fields |-> cleaned_record(t, t.rows[j])]]

\* the records an earlier request left for the upload t, untouched or with one
\* comment typed in by hand
SnapshotRecords(e, t) ==
    UNION {{written}
           \cup {[written EXCEPT ![j].fields[f] = Txt(V_hello)] :
                  j \in 1..Len(written), f \in {FieldComentario, FieldComentarioCXP}} :
           written \in {records_of(reconcile_comentarios(ProcessedUploads[e][t], None))}}

\* what the GET of process_file can return in environment e: nothing, or the
\* table of the records of the destination
Snapshots ==
    [e \in ProcessEnvs |->
        {<<None, <<>> >>}
        \cup (IF e.grist_configured
             THEN {<<Some(DataFrameOfRecords(records)), records>> :
                     records \in UNION {SnapshotRecords(e, t) :
                                          t \in {u \in Uploads : NRows(u) > 0}}}
             ELSE {})]

InitReconcile ==
    /\ pc = "reconcile"
    /\ env \in ProcessEnvs
    /\ input \in Uploads
    /\ df = ProcessedUploads[env][input]
    /\ \E snapshot \in Snapshots[env] : df_old_grist = snapshot[1] /\ grist = snapshot[2]
    /\ locals = Locals0
    /\ response = 0
    /\ budget = Budget0

NextReconcile == Reconcile

SpecReconcile == InitReconcile /\ [][NextReconcile]_vars

(***************************************************************************)
(* process_dataframe called as one operation, and called again by the      *)
(* caller on the same table or on the table the first call returned        *)
(***************************************************************************)
\* rows of mixed content: blank, filtered, text where numbers are expected
RowNdint ==
    Row(Txt(V_NDINT_55), Txt(V_ACME), Txt(V_T_1), Txt(V_estado_lower), Txt(V_7), Num(2),
        Num(2), Num(10), Date(Today - 5))

RowPpvImpuesto ==
    Row(Txt(V_A_100), Txt(V_acme_ppv2), Txt(V_cendis), Txt(V_estado_imp), Num(7),
        Txt(V_3), Num(4), Txt(V_x), Txt(V_s_n))

RowDirecto ==
    Row(Num(55), Txt(V_ACME), Txt(V_T_1), Txt(V_estado_lower), Txt(V_7), Num(2), Num(2),
        Num(10), Date(Today - 45))

RowSparse ==
    Row(NaN, NaN, NaN, NaN, NaN, NaN, Txt(V_guion), Num(10), Date(Today - 200))

RowCendis ==
    Row(Txt(V_A_100), Txt(V_ACME), Txt(V_cendis), Txt(V_estado_lower), Txt(V_OC1), Num(2),
        Num(4), Num(10), Date(Today + 1))

RunFamily == {BlankRow, RowNdint, RowPpvImpuesto, RowDirecto, RowSparse, RowCendis}

\* a table as read from a file that has only the columns of S
WithColumns(t, S) ==
    [cols |-> SelectSeq(t.cols, LAMBDA x : x \in S),
     rows |-> [i \in 1..NRows(t) |-> [x \in (DOMAIN t.rows[i]) \cap S |-> t.rows[i][x]]]]

\* files that carry any subset of the R011 columns
SubsetInputs ==
    {WithColumns([cols |-> InputCols, rows |-> rows], S) :
        rows \in {<<RowPpvImpuesto, RowDirecto>>, <<RowCendis, RowSparse>>},
        S \in SUBSET InputColSet}

FullInputs == {[cols |-> InputCols, rows |-> rows] : rows \in SeqsUpTo(RunFamily, MaxRows)}

RunInputs == FullInputs \cup SubsetInputs

\* a spreadsheet that cannot be opened, or that has no worksheet of the name
UnreadableSheet == [ok |-> FALSE, values |-> <<>>]

\* worksheets without one of the columns their builder requires
ProviderSheetNoUnidad ==
    [ok |-> TRUE,
     values |-> << <<S_NOMBRE_PROVEEDOR, V_x>>,
                   <<V_ACME, V_Alimentos>>,
                   <<V_Acme_PPV2, V_Norte>> >>]

TiendaSheetNoArea ==
    [ok |-> TRUE,
     values |-> << <<H_Estatus, S_Tienda, V_x, H_Gte_Area>>,
                   <<V_x, V_t1, V_Norte, V_Ana>>,
                   <<V_x, S_CENDIS, V_Norte, V_Luis>> >>]

EspecialistaSheetNoEspecialista ==
    [ok |-> TRUE,
     values |-> << <<S_SUCURSAL, V_x>>,
                   <<V_Acme_PPV2, V_Luis>> >>]

\* the run with every lookup available, and the runs in which one thing is missing
RunEnvs ==
    {Env0, [Env0 EXCEPT !.credentials = FALSE], [Env0 EXCEPT !.spreadsheet_id = FALSE]}
    \cup {[Env0 EXCEPT !.provider = ws] : ws \in {UnreadableSheet, ProviderSheetNoUnidad}}
    \cup {[Env0 EXCEPT !.tienda = ws] : ws \in {UnreadableSheet, TiendaSheetNoArea}}
    \cup {[Env0 EXCEPT !.especialista = ws] :
             ws \in {UnreadableSheet, EspecialistaSheetNoEspecialista}}

RunCases == (RunInputs \X {Env0}) \cup (FullInputs \X RunEnvs)

InitRuns ==
    /\ pc = "process_dataframe"
    /\ \E case \in RunCases : input = case[1] /\ env = case[2]
    /\ df = input
    /\ grist = <<>>
    /\ df_old_grist = None
    /\ locals = Locals0
    /\ response = 0
    /\ budget = Budget0

\* df_processed = process_dataframe(df)
ProcessDataframe ==
    /\ pc = "process_dataframe"
    /\ df' = process_dataframe(input, env)
    /\ pc' = "returned"
    /\ UNCHANGED <<input, env, grist, df_old_grist, locals, response, budget>>

\* a second call, on the same input table or on the table the first call returned
ProcessDataframeAgain ==
    /\ pc = "returned"
    /\ \E t \in {input, df} : df' = process_dataframe(t, env)
    /\ pc' = "returned_again"
    /\ UNCHANGED <<input, env, grist, df_old_grist, locals, response, budget>>

NextRuns ==
    \/ ProcessDataframe
    \/ ProcessDataframeAgain

SpecRuns == InitRuns /\ [][NextRuns]_vars

(***************************************************************************)
(* One step of the pipeline called on its own, on a table as a file gives  *)
(* it or as the steps before left it                                       *)
(***************************************************************************)
\* the step functions in the order process_dataframe calls them
StepNames ==
    <<"remove_empty_rows", "remove_ndint_invoices", "add_unidad_negocio_column",
      "add_tipo_proveedor_column", "add_motivo_retencion_column", "add_validacion_oc_column",
      "add_diferencia_real_column", "add_valor_real_unidades_column",
      "add_diferencia_unidades_column", "update_motivo_retencion_after_diferencia_unidades",
      "add_valor_real_subtotal_column", "add_diferencia_costo_column",
      "fill_motivo_retencion_unidades", "add_area_column", "add_gerente_area_column",
      "validate_cendis_area", "add_rango_fecha_column", "add_rango_0_30_column",
      "add_rango_30_60_column", "add_rango_60_90_column", "add_rango_90_120_column",
      "add_rango_120_plus_column", "add_especialista_comercial_column">>

\* files with all the columns, with one column missing, and with neither branch nor store
StepInputs ==
    {WithColumns([cols |-> InputCols, rows |-> rows], S) :
        rows \in {<<RowPpvImpuesto, RowDirecto>>, <<RowCendis, RowSparse>>},
        S \in {InputColSet} \cup {InputColSet \ {c} : c \in InputColSet}
               \cup {InputColSet \ {"Sucursal", "Tienda"}}}

\* the tables a step can be handed: a file, or what the first k steps made of it
StepTables == {process_dataframe_upto(k, t, Env0) : k \in 0..LastStep, t \in StepInputs}

InitSteps ==
    /\ pc = "idle"
    /\ input \in StepTables
    /\ df = input
    /\ env = Env0
    /\ grist = <<>>
    /\ df_old_grist = None
    /\ locals = Locals0
    /\ response = 0
    /\ budget = Budget0

\* df = step(df): pc names the step that has returned
CallStep(n) ==
    /\ pc = "idle"
    /\ df' = process_dataframe_step(n, df, env)
    /\ pc' = StepNames[n]
    /\ UNCHANGED <<input, env, grist, df_old_grist, locals, response, budget>>

NextSteps == \E n \in 1..LastStep : CallStep(n)

SpecSteps == InitSteps /\ [][NextSteps]_vars

(***************************************************************************)
(* process_grist called on a table of several batches                      *)
(***************************************************************************)
\* most batches of an upload
MaxBatches == 3

\* row counts around the batch boundaries
GristRowCounts ==
    {0, 1} \cup {k * batch_size : k \in 1..(MaxBatches - 1)}
           \cup {k * batch_size + 1 : k \in 1..(MaxBatches - 1)}

\* a processed table of n rows, the invoices numbered from 1
NumberedTable(n) ==
    [cols |-> <<"Número Factura", "Comentario">>,
     rows |-> [i \in 1..n |->
                 [c \in {"Número Factura", "Comentario"} |->
                     IF c = "Comentario" THEN Txt(<<>>) ELSE Num(i)]]]

\* the destination table before the call: empty, or one record of an earlier run
OldRecords ==
    {<<>>,
     <<[id |-> 1, keys |-> grist_keys(NumberedTable(0)),
        fields |-> cleaned_record(NumberedTable(0),
                                  [c \in {"Número Factura", "Comentario"} |->
                                      IF c = "Comentario" THEN Txt(V_hello) ELSE Num(0)])]>>}

InitGrist ==
    /\ pc = "process_grist"
    /\ input = [cols |-> InputCols, rows |-> <<>>]
    /\ \E n \in GristRowCounts : df = NumberedTable(n)
    /\ env = Env0
    /\ grist \in OldRecords
    /\ df_old_grist \in {None} \cup (IF grist = <<>> THEN {}
                                       ELSE {Some(DataFrameOfRecords(grist))})
    /\ locals = Locals0
    /\ response = 0
    /\ budget = Budget0

NextGrist ==
    \/ GristSnapshot
    \/ GristGetIds
    \/ GristDelete
    \/ GristUploadBatch
    \/ GristFinish

SpecGrist == InitGrist /\ [][NextGrist]_vars

(***************************************************************************)
(* The lookup steps on their own: one row whose Sucursal and Tienda are    *)
(* spelled in some way, against reference sheets whose names are spelled   *)
(* in some way                                                             *)
(***************************************************************************)
K_ACME == <<"A", "C", "M", "E">>

K_acme == <<"a", "c", "m", "e">>

K_A_CME == <<" ", "A", " ", "C", "\t", "M", "E", "\n">>

K_Ac_me == <<"A", "c", "\n", "m", "e">>

K_ACMES == <<"A", "C", "M", "E", "S">>

K_blank == <<" ">>

\* the spellings of a name in a reference sheet
SheetNames == {K_ACME, K_acme, K_A_CME, K_ACMES, K_blank}

\* the cells of Sucursal and Tienda in the row
LookupCells == {Txt(k) : k \in SheetNames \cup {K_Ac_me, <<>>}} \cup {NaN}

\* the steps that probe a reference sheet
LookupSteps == {3, 14, 15, 23}

\* the three sheets with the names a and b in their two data rows
LookupEnv(a, b) ==
    [Env0 EXCEPT
        !.provider = [ok |-> TRUE,
                      values |-> << <<S_NOMBRE_PROVEEDOR, S_UNIDAD_DE_NEGOCIO>>,
                                    <<a, V_Alimentos>>, <<b, V_Norte>> >>],
        !.tienda = [ok |-> TRUE,
                    values |-> << <<H_Estatus, S_Tienda, H_Area, H_Gte_Area>>,
                                  <<V_x, a, V_Alimentos, V_Ana>>,
                                  <<V_x, b, V_Norte, V_Luis>> >>],
        !.especialista = [ok |-> TRUE,
                          values |-> << <<S_SUCURSAL, H_Especialista>>,
                                        <<a, V_Ana>>, <<b, V_Luis>> >>]]

InitLookup ==
    /\ pc = "idle"
    /\ \E cell \in LookupCells :
          input = [cols |-> InputCols,
                   rows |-> <<Row(Txt(V_A_100), cell, cell, Txt(V_estado_lower), Txt(V_OC1),
                                  Num(2), Num(2), Num(10), Date(Today - 5))>>]
    /\ df = input
    /\ \E a \in SheetNames, b \in SheetNames : env = LookupEnv(a, b)
    /\ grist = <<>>
    /\ df_old_grist = None
    /\ locals = Locals0
    /\ response = 0
    /\ budget = Budget0

NextLookup == \E n \in LookupSteps : CallStep(n)

SpecLookup == InitLookup /\ [][NextLookup]_vars

(***************************************************************************)
(* Header detection (venezuela.py, detect_headers)                         *)
(***************************************************************************)
\* the 32 column names of an R011 file
expected_headers ==
    << <<"F", "e", "c", "h", "a", " ", "R", "e", "c", "e", "p", "c", "i", "ó", "n">>,
       <<"C", "e", "n", "t", "r", "o", " ", "d", "e", " ", "C", "o", "s", "t", "o">>,
       <<"T", "i", "e", "n", "d", "a">>,
       <<"P", "r", "o", "v", "e", "e", "d", "o", "r">>,
       <<"S", "u", "c", "u", "r", "s", "a", "l">>,
       <<"N", "ú", "m", "e", "r", "o", " ", "F", "a", "c", "t", "u", "r", "a">>,
       <<"T", "i", "p", "o", " ", "D", "o", "c", "u", "m", "e", "n", "t", "o">>,
       <<"E", "s", "t", "a", "d", "o">>,
       <<"O", "r", "d", "e", "n", " ", "C", "o", "m", "p", "r", "a">>,
       <<"F", "e", "c", "h", "a", " ", "F", "a", "c", "t", "u", "r", "a">>,
       <<"S", "u", "b", "T", "o", "t", "a", "l">>,
       <<"V", "a", "l", "o", "r", " ", "I", "m", "p", "u", "e", "s", "t", "o">>,
       <<"T", "o", "t", "a", "l", " ", "c", "o", "n", " ", "I", "m", "p", "u", "e", "s", "t", "o">>,
       <<"C", "o", "s", "t", "o", " ", "R", "e", "c", "e", "p", "c", "i", "o", "n">>,
       <<"D", "i", "f", "e", "r", "e", "n", "c", "i", "a">>,
       <<"U", "n", "i", "d", "a", "d", "e", "s", " ", "p", "o", "r", " ", "F", "a", "c", "t", "u", "r", "a">>,
       <<"U", "n", "i", "d", "a", "d", "e", "s", " ", "R", "e", "c", "i", "b", "i", "d", "a", "s">>,
       <<"D", "i", "f", "e", "r", "e", "n", "c", "i", "a", "s">>,
       <<"F", "a", "c", "t", "u", "r", "a", " ", "C", "o", "n", " ", "F", "a", "l", "t", "a", "n", "t", "e">>,
       <<"T", "é", "r", "m", "i", "n", "o", " ", "d", "e", " ", "P", "a", "g", "o">>,
       <<"F", "e", "c", "h", "a", " ", "V", "e", "n", "c", "i", "m", "i", "e", "n", "t", "o">>,
       <<"I", "n", "d", "i", "c", "a", "d", "o", "r", " ", "R", "T", "V">>,
       <<"O", "r", "d", "e", "n", "R", "T", "V">>,
       <<"C", "o", "n", "s", "i", "g", "n", "a", "c", "i", "ó", "n">>,
       <<"O", "r", "i", "g", "e", "n", " ", "D", "o", "c", "u", "m", "e", "n", "t", "o">>,
       <<"R", "a", "z", "ó", "n", " ", "R", "E", "I", "M">>,
       <<"F", "e", "c", "h", "a", " ", "C", "r", "e", "a", "c", "i", "ó", "n">>,
       <<"F", "e", "c", "h", "a", " ", "M", "o", "d", "i", "f", "i", "c", "a", "c", "i", "ó", "n">>,
       <<"F", "e", "c", "h", "a", " ", "A", "p", "r", "o", "b", "a", "c", "i", "ó", "n">>,
       <<"F", "e", "c", "h", "a", " ", "P", "u", "b", "l", "i", "c", "a", "c", "i", "ó", "n">>,
       <<"C", "r", "e", "a", "d", "o", " ", "P", "o", "r">>,
       <<"M", "o", "d", "i", "f", "i", "c", "a", "d", "o", " ", "P", "o", "r">> >>

\* [str(h).strip().lower() for h in expected_headers]
expected_normalized == [k \in 1..Len(expected_headers) |-> lower(strip(expected_headers[k]))]

\* expected.replace(' ', '').replace('\t', '').replace('\n', '')
expected_no_spaces ==
    [k \in 1..Len(expected_headers) |-> remove_spaces(expected_normalized[k])]

\* rows of the sheet that are read for the search
max_rows_to_check == 100

\* fewest expected headers a header row holds
min_match_count == 5

\* str(val).strip().lower() if pd.notna(val) else ''
header_cell(c) == IF c.k = "nan" THEN <<>> ELSE lower(strip(py_str(c)))

row_values(row) == [j \in 1..Len(row) |-> header_cell(row[j])]

\* the count of expected headers found in the row, each looked for as it is
\* and, when not found, without its blanks among the cells without theirs
match_count(row) ==
    Cardinality(UNION {
        {k \in 1..Len(expected_headers) :
            \/ IsIn(cells.values, expected_normalized[k])
            \/ IsIn(cells.normalized, expected_no_spaces[k])} :
        cells \in {[values |-> values,
                    normalized |-> [j \in 1..Len(values) |-> remove_spaces(values[j])]] :
                   values \in {row_values(row)}}})

\* all(not val or val.strip() == '' for val in row_values)
is_empty_row(row) == \A j \in 1..Len(row) : strip(header_cell(row[j])) = <<>>

\* faulty variant of the scan: a later row with as many matches replaces the
\* earlier one
detect_headers_scan_last(rows, row_idx, best_match_row, best_match_count) ==
    LET counts == [i \in 1..Len(rows) |->
                      IF is_empty_row(rows[i]) THEN 0 ELSE match_count(rows[i])]
        better(i) == counts[i] >= min_match_count
                     /\ \A j \in 1..Len(rows) : counts[j] <= counts[i]
    IN IF \E i \in 1..Len(rows) : better(i)
       THEN Some((CHOOSE i \in 1..Len(rows) :
                     better(i) /\ \A j \in 1..Len(rows) : better(j) => j <= i) - 1)
       ELSE None

\* the loop over the rows read: best_match_row and best_match_count are
\* replaced when a row that is not empty has at least 5 matches and more than
\* the best so far
RECURSIVE detect_headers_scan(_, _, _, _)
detect_headers_scan(rows, row_idx, best_match_row, best_match_count) ==
    IF row_idx > Len(rows) THEN best_match_row
    ELSE IF is_empty_row(rows[row_idx])
         THEN detect_headers_scan(rows, row_idx + 1, best_match_row, best_match_count)
         ELSE CHOOSE result \in
                  {IF count >= min_match_count /\ count > best_match_count
                   THEN detect_headers_scan(rows, row_idx + 1, Some(row_idx - 1), count)
                   ELSE detect_headers_scan(rows, row_idx + 1,
                                            best_match_row, best_match_count) :
                   count \in {match_count(rows[row_idx])}} : TRUE

\* detect_headers: the index, from 0, of the header row among the first 100
\* rows, or None; a file that cannot be read gives None
detect_headers(file) ==
    IF ~file.ok THEN None
    ELSE detect_headers_scan(SubSeq(file.rows, 1, Min2(Len(file.rows), max_rows_to_check)),
                             1, None, 0)

\* most rows of a sheet of which every row is drawn
MaxSheetRows == 3

\* the expected headers k1..k2 as cells, each written by the style
HeaderCells(k1, k2, Style(_)) == [j \in 1..(k2 - k1 + 1) |-> Txt(Style(expected_headers[k1 + j - 1]))]

AsIs(h) == h

\* padded and in lower case
Folded(h) == <<" ">> \o lower(h) \o <<" ">>

\* with a blank put in after the first letter
Spaced(h) == <<Head(h), " ">> \o Tail(h)

\* the rows a sheet is made of: blank rows, a title, data, and rows holding
\* 4, 5, 6 or all of the expected headers in one of the styles
SheetRowFamily ==
    {<<NaN, NaN, NaN>>,
     <<Txt(<<" ">>), NaN, Txt(<<>>)>>,
     <<Txt(V_Proveedor), NaN, NaN>>,
     <<Num(3), Txt(V_T_1), Txt(V_Proveedor), Txt(V_ACME), Txt(V_A_100), Num(7)>>,
     [j \in 1..6 |-> Txt(expected_headers[3])],
     HeaderCells(1, 4, AsIs),
     HeaderCells(1, 5, AsIs),
     HeaderCells(2, 6, Folded),
     HeaderCells(3, 7, Spaced),
     HeaderCells(1, 6, AsIs) \o <<NaN, Txt(V_x)>>,
     HeaderCells(1, 4, Folded) \o HeaderCells(5, 6, Spaced),
     HeaderCells(1, Len(expected_headers), AsIs)}

\* a header row below 99 and below 100 blank rows
LongSheets ==
    {[i \in 1..(blank + 1) |-> IF i <= blank THEN <<NaN, NaN, NaN>> ELSE HeaderCells(1, 5, AsIs)] :
        blank \in {max_rows_to_check - 1, max_rows_to_check}}

\* the files handed to detect_headers: sheets, and bytes that are no workbook
SheetFiles ==
    {[ok |-> TRUE, rows |-> rows] :
        rows \in SeqsUpTo(SheetRowFamily, MaxSheetRows) \cup LongSheets}
    \cup {[ok |-> FALSE, rows |-> <<>>]}

InitHeaders ==
    /\ pc = "idle"
    /\ input \in SheetFiles
    /\ df = [cols |-> <<>>, rows |-> <<>>]
    /\ env = Env0
    /\ grist = <<>>
    /\ df_old_grist = None
    /\ locals = Locals0
    /\ response = None
    /\ budget = Budget0

\* process_file, line 322: header_row = venezuela.detect_headers(file_content)
DetectHeaders ==
    /\ pc = "idle"
    /\ response' = detect_headers(input)
    /\ pc' = "detect_headers"
    /\ UNCHANGED <<input, df, env, grist, df_old_grist, locals, budget>>

NextHeaders == DetectHeaders

SpecHeaders == InitHeaders /\ [][NextHeaders]_vars

(***************************************************************************)
(* Warehouse column names (venezuela.py)                                   *)
(***************************************************************************)
\* faulty variant of the mapping: the column added last by /process has no entry
get_bigquery_column_mapping_short ==
    << <<<<"F", "e", "c", "h", "a", " ", "R", "e", "c", "e", "p", "c", "i", "ó", "n">>,
         <<"v", "z", "l", "a", "_", "r", "e", "t", "e", "n", "i", "d", "a", "_", "f", "e", "c", "h", "a", "_", "r", "e", "c", "e", "p", "c", "i", "o", "n">>>>,
       <<<<"C", "e", "n", "t", "r", "o", " ", "d", "e", " ", "C", "o", "s", "t", "o">>,
         <<"v", "z", "l", "a", "_", "r", "e", "t", "e", "n", "i", "d", "a", "_", "c", "e", "n", "t", "r", "o", "_", "c", "o", "s", "t", "o">>>>,
       <<<<"T", "i", "e", "n", "d", "a">>,
         <<"v", "z", "l", "a", "_", "r", "e", "t", "e", "n", "i", "d", "a", "_", "t", "i", "e", "n", "d", "a">>>>,
       <<<<"P", "r", "o", "v", "e", "e", "d", "o", "r">>,
         <<"v", "z", "l", "a", "_", "r", "e", "t", "e", "n", "i", "d", "a", "_", "p", "r", "o", "v", "e", "e", "d", "o", "r">>>>,
       <<<<"S", "u", "c", "u", "r", "s", "a", "l">>,
         <<"v", "z", "l", "a", "_", "r", "e", "t", "e", "n", "i", "d", "a", "_", "s", "u", "c", "u", "r", "s", "a", "l">>>>,
       <<<<"N", "ú", "m", "e", "r", "o", " ", "F", "a", "c", "t", "u", "r", "a">>,
         <<"v", "z", "l", "a", "_", "r", "e", "t", "e", "n", "i", "d", "a", "_", "n", "u", "m", "e", "r", "o", "_", "f", "a", "c", "t", "u", "r", "a">>>>,
       <<<<"T", "i", "p", "o", " ", "D", "o", "c", "u", "m", "e", "n", "t", "o">>,
         <<"v", "z", "l", "a", "_", "r", "e", "t", "e", "n", "i", "d", "a", "_", "d", "o", "c", "u", "m", "e", "n", "t", "o">>>>,
       <<<<"E", "s", "t", "a", "d", "o">>,
         <<"v", "z", "l", "a", "_", "r", "e", "t", "e", "n", "i", "d", "a", "_", "e", "s", "t", "a", "d", "o">>>>,
       <<<<"O", "r", "d", "e", "n", " ", "C", "o", "m", "p", "r", "a">>,
         <<"v", "z", "l", "a", "_", "r", "e", "t", "e", "n", "i", "d", "a", "_", "o", "r", "d", "e", "n", "_", "c", "o", "m", "p", "r", "a">>>>,
       <<<<"F", "e", "c", "h", "a", " ", "F", "a", "c", "t", "u", "r", "a">>,
         <<"v", "z", "l", "a", "_", "r", "e", "t", "e", "n", "i", "d", "a", "_", "f", "e", "c", "h", "a", "_", "f", "a", "c", "t", "u", "r", "a">>>>,
       <<<<"S", "u", "b", "T", "o", "t", "a", "l">>,
         <<"v", "z", "l", "a", "_", "r", "e", "t", "e", "n", "i", "d", "a", "_", "s", "u", "b", "t", "o", "t", "a", "l">>>>,
       <<<<"V", "a", "l", "o", "r", " ", "I", "m", "p", "u", "e", "s", "t", "o">>,
         <<"v", "z", "l", "a", "_", "r", "e", "t", "e", "n", "i", "d", "a", "_", "v", "a", "l", "o", "r", "_", "i", "m", "p", "u", "e", "s", "t", "o">>>>,
       <<<<"T", "o", "t", "a", "l", " ", "c", "o", "n", " ", "I", "m", "p", "u", "e", "s", "t", "o">>,
         <<"v", "z", "l", "a", "_", "r", "e", "t", "e", "n", "i", "d", "a", "_", "t", "o", "t", "a", "l", "_", "i", "m", "p", "u", "e", "s", "t", "o">>>>,
       <<<<"C", "o", "s", "t", "o", " ", "R", "e", "c", "e", "p", "c", "i", "o", "n">>,
         <<"v", "z", "l", "a", "_", "r", "e", "t", "e", "n", "i", "d", "a", "_", "c", "o", "s", "t", "o", "_", "r", "e", "c", "e", "p", "c", "i", "o", "n">>>>,
       <<<<"D", "i", "f", "e", "r", "e", "n", "c", "i", "a">>,
         <<"v", "z", "l", "a", "_", "r", "e", "t", "e", "n", "i", "d", "a", "_", "d", "i", "f", "e", "r", "e", "n", "c", "i", "a">>>>,
       <<<<"U", "n", "i", "d", "a", "d", "e", "s", " ", "p", "o", "r", " ", "F", "a", "c", "t", "u", "r", "a">>,
         <<"v", "z", "l", "a", "_", "r", "e", "t", "e", "n", "i", "d", "a", "_", "u", "n", "i", "d", "a", "d", "e", "s", "_", "f", "a", "c", "t", "u", "r", "a">>>>,
       <<<<"U", "n", "i", "d", "a", "d", "e", "s", " ", "R", "e", "c", "i", "b", "i", "d", "a", "s">>,
         <<"v", "z", "l", "a", "_", "r", "e", "t", "e", "n", "i", "d", "a", "_", "u", "n", "i", "d", "a", "d", "e", "s", "_", "r", "e", "c", "i", "b", "i", "d", "a">>>>,
       <<<<"D", "i", "f", "e", "r", "e", "n", "c", "i", "a", "s">>,
         <<"v", "z", "l", "a", "_", "r", "e", "t", "e", "n", "i", "d", "a", "_", "d", "i", "f", "e", "r", "e", "n", "c", "i", "a", "s">>>>,
       <<<<"F", "a", "c", "t", "u", "r", "a", " ", "C", "o", "n", " ", "F", "a", "l", "t", "a", "n", "t", "e">>,
         <<"v", "z", "l", "a", "_", "r", "e", "t", "e", "n", "i", "d", "a", "_", "f", "a", "c", "t", "u", "r", "a", "_", "f", "a", "l", "t", "a", "n", "t", "e">>>>,
       <<<<"T", "é", "r", "m", "i", "n", "o", " ", "d", "e", " ", "P", "a", "g", "o">>,
         <<"v", "z", "l", "a", "_", "r", "e", "t", "e", "n", "i", "d", "a", "_", "t", "e", "r", "m", "i", "n", "o", "_", "p", "a", "g", "o">>>>,
       <<<<"F", "e", "c", "h", "a", " ", "V", "e", "n", "c", "i", "m", "i", "e", "n", "t", "o">>,
         <<"v", "z", "l", "a", "_", "r", "e", "t", "e", "n", "i", "d", "a", "_", "f", "e", "c", "h", "a", "_", "v", "e", "n", "c", "i", "m", "i", "e", "n", "t", "o">>>>,
       <<<<"I", "n", "d", "i", "c", "a", "d", "o", "r", " ", "R", "T", "V">>,
         <<"v", "z", "l", "a", "_", "r", "e", "t", "e", "n", "i", "d", "a", "_", "i", "n", "d", "i", "c", "a", "d", "o", "r", "_", "r", "t", "v">>>>,
       <<<<"O", "r", "d", "e", "n", "R", "T", "V">>,
         <<"v", "z", "l", "a", "_", "r", "e", "t", "e", "n", "i", "d", "a", "_", "o", "r", "d", "e", "n", "_", "r", "t", "v">>>>,
       <<<<"C", "o", "n", "s", "i", "g", "n", "a", "c", "i", "ó", "n">>,
         <<"v", "z", "l", "a", "_", "r", "e", "t", "e", "n", "i", "d", "a", "_", "c", "o", "n", "s", "i", "g", "n", "a", "c", "i", "o", "n">>>>,
       <<<<"O", "r", "i", "g", "e", "n", " ", "D", "o", "c", "u", "m", "e", "n", "t", "o">>,
         <<"v", "z", "l", "a", "_", "r", "e", "t", "e", "n", "i", "d", "a", "_", "o", "r", "i", "g", "e", "n", "_", "d", "o", "c", "u", "m", "e", "n", "t", "o">>>>,
       <<<<"R", "a", "z", "ó", "n", " ", "R", "E", "I", "M">>,
         <<"v", "z", "l", "a", "_", "r", "e", "t", "e", "n", "i", "d", "a", "_", "r", "a", "z", "o", "n", "_", "r", "e", "i", "m">>>>,
       <<<<"F", "e", "c", "h", "a", " ", "C", "r", "e", "a", "c", "i", "ó", "n">>,
         <<"v", "z", "l", "a", "_", "r", "e", "t", "e", "n", "i", "d", "a", "_", "f", "e", "c", "h", "a", "_", "c", "r", "e", "a", "c", "i", "o", "n">>>>,
       <<<<"F", "e", "c", "h", "a", " ", "M", "o", "d", "i", "f", "i", "c", "a", "c", "i", "ó", "n">>,
         <<"v", "z", "l", "a", "_", "r", "e", "t", "e", "n", "i", "d", "a", "_", "f", "e", "c", "h", "a", "_", "m", "o", "d", "i", "f", "i", "c", "a", "c", "i", "o", "n">>>>,
       <<<<"F", "e", "c", "h", "a", " ", "A", "p", "r", "o", "b", "a", "c", "i", "ó", "n">>,
         <<"v", "z", "l", "a", "_", "r", "e", "t", "e", "n", "i", "d", "a", "_", "f", "e", "c", "h", "a", "_", "a", "p", "r", "o", "b", "a", "c", "i", "o", "n">>>>,
       <<<<"F", "e", "c", "h", "a", " ", "P", "u", "b", "l", "i", "c", "a", "c", "i", "ó", "n">>,
         <<"v", "z", "l", "a", "_", "r", "e", "t", "e", "n", "i", "d", "a", "_", "f", "e", "c", "h", "a", "_", "p", "u", "b", "l", "i", "c", "a", "c", "i", "o", "n">>>>,
       <<<<"C", "r", "e", "a", "d", "o", " ", "P", "o", "r">>,
         <<"v", "z", "l", "a", "_", "r", "e", "t", "e", "n", "i", "d", "a", "_", "c", "r", "e", "a", "d", "o", "_", "p", "o", "r">>>>,
       <<<<"M", "o", "d", "i", "f", "i", "c", "a", "d", "o", " ", "P", "o", "r">>,
         <<"v", "z", "l", "a", "_", "r", "e", "t", "e", "n", "i", "d", "a", "_", "m", "o", "d", "i", "f", "i", "c", "a", "d", "o", "_", "p", "o", "r">>>>,
       <<<<"U", "n", "i", "d", "a", "d", " ", "d", "e", " ", "N", "e", "g", "o", "c", "i", "o">>,
         <<"v", "z", "l", "a", "_", "r", "e", "t", "e", "n", "i", "d", "a", "_", "u", "n", "i", "d", "a", "d", "_", "n", "e", "g", "o", "c", "i", "o">>>>,
       <<<<"T", "i", "p", "o", " ", "d", "e", " ", "P", "r", "o", "v", "e", "e", "d", "o", "r">>,
         <<"v", "z", "l", "a", "_", "r", "e", "t", "e", "n", "i", "d", "a", "_", "t", "i", "p", "o", "_", "p", "r", "o", "v", "e", "e", "d", "o", "r">>>>,
       <<<<"M", "o", "t", "i", "v", "o", " ", "d", "e", " ", "R", "e", "t", "e", "n", "c", "i", "ó", "n">>,
         <<"v", "z", "l", "a", "_", "r", "e", "t", "e", "n", "i", "d", "a", "_", "m", "o", "t", "i", "v", "o", "_", "r", "e", "t", "e", "n", "c", "i", "o", "n">>>>,
       <<<<"C", "o", "m", "e", "n", "t", "a", "r", "i", "o">>,
         <<"v", "z", "l", "a", "_", "r", "e", "t", "e", "n", "i", "d", "a", "_", "c", "o", "m", "e", "n", "t", "a", "r", "i", "o", "s">>>>,
       <<<<"E", "s", "p", "e", "c", "i", "a", "l", "i", "s", "t", "a", " ", "C", "o", "m", "e", "r", "c", "i", "a", "l">>,
         <<"v", "z", "l", "a", "_", "r", "e", "t", "e", "n", "i", "d", "a", "_", "e", "s", "p", "e", "c", "i", "a", "l", "i", "s", "t", "a", "_", "c", "o", "m", "e", "r", "c", "i", "a", "l">>>>,
       <<<<"C", "o", "m", "e", "n", "t", "a", "r", "i", "o", " ", "C", "X", "P">>,
         <<"v", "z", "l", "a", "_", "r", "e", "t", "e", "n", "i", "d", "a", "_", "c", "o", "m", "e", "n", "t", "a", "r", "i", "o", "_", "c", "x", "p">>>>,
       <<<<"F", "e", "c", "h", "a", " ", "R", "e", "p", "o", "r", "t", "e", " ", "C", "X", "P">>,
         <<"v", "z", "l", "a", "_", "r", "e", "t", "e", "n", "i", "d", "a", "_", "f", "e", "c", "h", "a", "_", "r", "e", "p", "o", "r", "t", "e", "_", "c", "x", "p">>>>,
       <<<<"V", "a", "l", "i", "d", "a", "c", "i", "o", "n", " ", "d", "e", " ", "O", "C">>,
         <<"v", "z", "l", "a", "_", "r", "e", "t", "e", "n", "i", "d", "a", "_", "v", "a", "l", "i", "d", "a", "c", "i", "o", "n", "_", "o", "c">>>>,
       <<<<"D", "i", "f", "e", "r", "e", "n", "c", "i", "a", " ", "R", "e", "a", "l">>,
         <<"v", "z", "l", "a", "_", "r", "e", "t", "e", "n", "i", "d", "a", "_", "d", "i", "f", "e", "r", "e", "n", "c", "i", "a", "_", "r", "e", "a", "l">>>>,
       <<<<"V", "a", "l", "o", "r", " ", "R", "e", "a", "l", " ", "d", "e", " ", "U", "n", "i", "d", "a", "d", "e", "s">>,
         <<"v", "z", "l", "a", "_", "r", "e", "t", "e", "n", "i", "d", "a", "_", "v", "a", "l", "o", "r", "_", "r", "e", "a", "l", "_", "u", "n", "i", "d", "a", "d", "e", "s">>>>,
       <<<<"D", "i", "f", "e", "r", "e", "n", "c", "i", "a", " ", "U", "n", "i", "d", "a", "d", "e", "s">>,
         <<"v", "z", "l", "a", "_", "r", "e", "t", "e", "n", "i", "d", "a", "_", "d", "i", "f", "e", "r", "e", "n", "c", "i", "a", "_", "u", "n", "i", "d", "a", "d", "e", "s">>>>,
       <<<<"V", "a", "l", "o", "r", " ", "R", "e", "a", "l", " ", "d", "e", " ", "S", "u", "b", "t", "o", "t", "a", "l">>,
         <<"v", "z", "l", "a", "_", "r", "e", "t", "e", "n", "i", "d", "a", "_", "v", "a", "l", "o", "r", "_", "r", "e", "a", "l", "_", "s", "u", "b", "t", "o", "t", "a", "l">>>>,
       <<<<"D", "i", "f", "e", "r", "e", "n", "c", "i", "a", " ", "C", "o", "s", "t", "o">>,
         <<"v", "z", "l", "a", "_", "r", "e", "t", "e", "n", "i", "d", "a", "_", "d", "i", "f", "e", "r", "e", "n", "c", "i", "a", "_", "c", "o", "s", "t", "o">>>>,
       <<<<"A", "r", "e", "a">>,
         <<"v", "z", "l", "a", "_", "r", "e", "t", "e", "n", "i", "d", "a", "_", "a", "r", "e", "a">>>>,
       <<<<"G", "e", "r", "e", "n", "t", "e", " ", "d", "e", " ", "A", "r", "e", "a">>,
         <<"v", "z", "l", "a", "_", "r", "e", "t", "e", "n", "i", "d", "a", "_", "g", "e", "r", "e", "n", "t", "e", "_", "a", "r", "e", "a">>>>,
       <<<<"R", "a", "n", "g", "o", " ", "d", "e", " ", "f", "e", "c", "h", "a">>,
         <<"v", "z", "l", "a", "_", "r", "e", "t", "e", "n", "i", "d", "a", "_", "r", "a", "n", "g", "o", "_", "f", "e", "c", "h", "a">>>>,
       <<<<"0", "-", "3", "0">>,
         <<"v", "z", "l", "a", "_", "r", "e", "t", "e", "n", "i", "d", "a", "_", "0", "_", "3", "0">>>>,
       <<<<"3", "0", "-", "6", "0">>,
         <<"v", "z", "l", "a", "_", "r", "e", "t", "e", "n", "i", "d", "a", "_", "3", "0", "_", "6", "0">>>>,
       <<<<"6", "0", "-", "9", "0">>,
         <<"v", "z", "l", "a", "_", "r", "e", "t", "e", "n", "i", "d", "a", "_", "6", "0", "_", "9", "0">>>>,
       <<<<"9", "0", "-", "1", "2", "0">>,
         <<"v", "z", "l", "a", "_", "r", "e", "t", "e", "n", "i", "d", "a", "_", "9", "0", "_", "1", "2", "0">>>>,
       <<<<"+", "1", "2", "0">>,
         <<"v", "z", "l", "a", "_", "r", "e", "t", "e", "n", "i", "d", "a", "_", "m", "a", "s", "_", "1", "2", "0">>>> >>

\* get_bigquery_column_mapping: the pairs (column of the table, column of the
\* warehouse) in the order of the dict
get_bigquery_column_mapping ==
    << <<<<"F", "e", "c", "h", "a", " ", "R", "e", "c", "e", "p", "c", "i", "ó", "n">>,
         <<"v", "z", "l", "a", "_", "r", "e", "t", "e", "n", "i", "d", "a", "_", "f", "e", "c", "h", "a", "_", "r", "e", "c", "e", "p", "c", "i", "o", "n">>>>,
       <<<<"C", "e", "n", "t", "r", "o", " ", "d", "e", " ", "C", "o", "s", "t", "o">>,
         <<"v", "z", "l", "a", "_", "r", "e", "t", "e", "n", "i", "d", "a", "_", "c", "e", "n", "t", "r", "o", "_", "c", "o", "s", "t", "o">>>>,
       <<<<"T", "i", "e", "n", "d", "a">>,
         <<"v", "z", "l", "a", "_", "r", "e", "t", "e", "n", "i", "d", "a", "_", "t", "i", "e", "n", "d", "a">>>>,
       <<<<"P", "r", "o", "v", "e", "e", "d", "o", "r">>,
         <<"v", "z", "l", "a", "_", "r", "e", "t", "e", "n", "i", "d", "a", "_", "p", "r", "o", "v", "e", "e", "d", "o", "r">>>>,
       <<<<"S", "u", "c", "u", "r", "s", "a", "l">>,
         <<"v", "z", "l", "a", "_", "r", "e", "t", "e", "n", "i", "d", "a", "_", "s", "u", "c", "u", "r", "s", "a", "l">>>>,
       <<<<"N", "ú", "m", "e", "r", "o", " ", "F", "a", "c", "t", "u", "r", "a">>,
         <<"v", "z", "l", "a", "_", "r", "e", "t", "e", "n", "i", "d", "a", "_", "n", "u", "m", "e", "r", "o", "_", "f", "a", "c", "t", "u", "r", "a">>>>,
       <<<<"T", "i", "p", "o", " ", "D", "o", "c", "u", "m", "e", "n", "t", "o">>,
         <<"v", "z", "l", "a", "_", "r", "e", "t", "e", "n", "i", "d", "a", "_", "d", "o", "c", "u", "m", "e", "n", "t", "o">>>>,
       <<<<"E", "s", "t", "a", "d", "o">>,
         <<"v", "z", "l", "a", "_", "r", "e", "t", "e", "n", "i", "d", "a", "_", "e", "s", "t", "a", "d", "o">>>>,
       <<<<"O", "r", "d", "e", "n", " ", "C", "o", "m", "p", "r", "a">>,
         <<"v", "z", "l", "a", "_", "r", "e", "t", "e", "n", "i", "d", "a", "_", "o", "r", "d", "e", "n", "_", "c", "o", "m", "p", "r", "a">>>>,
       <<<<"F", "e", "c", "h", "a", " ", "F", "a", "c", "t", "u", "r", "a">>,
         <<"v", "z", "l", "a", "_", "r", "e", "t", "e", "n", "i", "d", "a", "_", "f", "e", "c", "h", "a", "_", "f", "a", "c", "t", "u", "r", "a">>>>,
       <<<<"S", "u", "b", "T", "o", "t", "a", "l">>,
         <<"v", "z", "l", "a", "_", "r", "e", "t", "e", "n", "i", "d", "a", "_", "s", "u", "b", "t", "o", "t", "a", "l">>>>,
       <<<<"V", "a", "l", "o", "r", " ", "I", "m", "p", "u", "e", "s", "t", "o">>,
         <<"v", "z", "l", "a", "_", "r", "e", "t", "e", "n", "i", "d", "a", "_", "v", "a", "l", "o", "r", "_", "i", "m", "p", "u", "e", "s", "t", "o">>>>,
       <<<<"T", "o", "t", "a", "l", " ", "c", "o", "n", " ", "I", "m", "p", "u", "e", "s", "t", "o">>,
         <<"v", "z", "l", "a", "_", "r", "e", "t", "e", "n", "i", "d", "a", "_", "t", "o", "t", "a", "l", "_", "i", "m", "p", "u", "e", "s", "t", "o">>>>,
       <<<<"C", "o", "s", "t", "o", " ", "R", "e", "c", "e", "p", "c", "i", "o", "n">>,
         <<"v", "z", "l", "a", "_", "r", "e", "t", "e", "n", "i", "d", "a", "_", "c", "o", "s", "t", "o", "_", "r", "e", "c", "e", "p", "c", "i", "o", "n">>>>,
       <<<<"D", "i", "f", "e", "r", "e", "n", "c", "i", "a">>,
         <<"v", "z", "l", "a", "_", "r", "e", "t", "e", "n", "i", "d", "a", "_", "d", "i", "f", "e", "r", "e", "n", "c", "i", "a">>>>,
       <<<<"U", "n", "i", "d", "a", "d", "e", "s", " ", "p", "o", "r", " ", "F", "a", "c", "t", "u", "r", "a">>,
         <<"v", "z", "l", "a", "_", "r", "e", "t", "e", "n", "i", "d", "a", "_", "u", "n", "i", "d", "a", "d", "e", "s", "_", "f", "a", "c", "t", "u", "r", "a">>>>,
       <<<<"U", "n", "i", "d", "a", "d", "e", "s", " ", "R", "e", "c", "i", "b", "i", "d", "a", "s">>,
         <<"v", "z", "l", "a", "_", "r", "e", "t", "e", "n", "i", "d", "a", "_", "u", "n", "i", "d", "a", "d", "e", "s", "_", "r", "e", "c", "i", "b", "i", "d", "a">>>>,
       <<<<"D", "i", "f", "e", "r", "e", "n", "c", "i", "a", "s">>,
         <<"v", "z", "l", "a", "_", "r", "e", "t", "e", "n", "i", "d", "a", "_", "d", "i", "f", "e", "r", "e", "n", "c", "i", "a", "s">>>>,
       <<<<"F", "a", "c", "t", "u", "r", "a", " ", "C", "o", "n", " ", "F", "a", "l", "t", "a", "n", "t", "e">>,
         <<"v", "z", "l", "a", "_", "r", "e", "t", "e", "n", "i", "d", "a", "_", "f", "a", "c", "t", "u", "r", "a", "_", "f", "a", "l", "t", "a", "n", "t", "e">>>>,
       <<<<"T", "é", "r", "m", "i", "n", "o", " ", "d", "e", " ", "P", "a", "g", "o">>,
         <<"v", "z", "l", "a", "_", "r", "e", "t", "e", "n", "i", "d", "a", "_", "t", "e", "r", "m", "i", "n", "o", "_", "p", "a", "g", "o">>>>,
       <<<<"F", "e", "c", "h", "a", " ", "V", "e", "n", "c", "i", "m", "i", "e", "n", "t", "o">>,
         <<"v", "z", "l", "a", "_", "r", "e", "t", "e", "n", "i", "d", "a", "_", "f", "e", "c", "h", "a", "_", "v", "e", "n", "c", "i", "m", "i", "e", "n", "t", "o">>>>,
       <<<<"I", "n", "d", "i", "c", "a", "d", "o", "r", " ", "R", "T", "V">>,
         <<"v", "z", "l", "a", "_", "r", "e", "t", "e", "n", "i", "d", "a", "_", "i", "n", "d", "i", "c", "a", "d", "o", "r", "_", "r", "t", "v">>>>,
       <<<<"O", "r", "d", "e", "n", "R", "T", "V">>,
         <<"v", "z", "l", "a", "_", "r", "e", "t", "e", "n", "i", "d", "a", "_", "o", "r", "d", "e", "n", "_", "r", "t", "v">>>>,
       <<<<"C", "o", "n", "s", "i", "g", "n", "a", "c", "i", "ó", "n">>,
         <<"v", "z", "l", "a", "_", "r", "e", "t", "e", "n", "i", "d", "a", "_", "c", "o", "n", "s", "i", "g", "n", "a", "c", "i", "o", "n">>>>,
       <<<<"O", "r", "i", "g", "e", "n", " ", "D", "o", "c", "u", "m", "e", "n", "t", "o">>,
         <<"v", "z", "l", "a", "_", "r", "e", "t", "e", "n", "i", "d", "a", "_", "o", "r", "i", "g", "e", "n", "_", "d", "o", "c", "u", "m", "e", "n", "t", "o">>>>,
       <<<<"R", "a", "z", "ó", "n", " ", "R", "E", "I", "M">>,
         <<"v", "z", "l", "a", "_", "r", "e", "t", "e", "n", "i", "d", "a", "_", "r", "a", "z", "o", "n", "_", "r", "e", "i", "m">>>>,
       <<<<"F", "e", "c", "h", "a", " ", "C", "r", "e", "a", "c", "i", "ó", "n">>,
         <<"v", "z", "l", "a", "_", "r", "e", "t", "e", "n", "i", "d", "a", "_", "f", "e", "c", "h", "a", "_", "c", "r", "e", "a", "c", "i", "o", "n">>>>,
       <<<<"F", "e", "c", "h", "a", " ", "M", "o", "d", "i", "f", "i", "c", "a", "c", "i", "ó", "n">>,
         <<"v", "z", "l", "a", "_", "r", "e", "t", "e", "n", "i", "d", "a", "_", "f", "e", "c", "h", "a", "_", "m", "o", "d", "i", "f", "i", "c", "a", "c", "i", "o", "n">>>>,
       <<<<"F", "e", "c", "h", "a", " ", "A", "p", "r", "o", "b", "a", "c", "i", "ó", "n">>,
         <<"v", "z", "l", "a", "_", "r", "e", "t", "e", "n", "i", "d", "a", "_", "f", "e", "c", "h", "a", "_", "a", "p", "r", "o", "b", "a", "c", "i", "o", "n">>>>,
       <<<<"F", "e", "c", "h", "a", " ", "P", "u", "b", "l", "i", "c", "a", "c", "i", "ó", "n">>,
         <<"v", "z", "l", "a", "_", "r", "e", "t", "e", "n", "i", "d", "a", "_", "f", "e", "c", "h", "a", "_", "p", "u", "b", "l", "i", "c", "a", "c", "i", "o", "n">>>>,
       <<<<"C", "r", "e", "a", "d", "o", " ", "P", "o", "r">>,
         <<"v", "z", "l", "a", "_", "r", "e", "t", "e", "n", "i", "d", "a", "_", "c", "r", "e", "a", "d", "o", "_", "p", "o", "r">>>>,
       <<<<"M", "o", "d", "i", "f", "i", "c", "a", "d", "o", " ", "P", "o", "r">>,
         <<"v", "z", "l", "a", "_", "r", "e", "t", "e", "n", "i", "d", "a", "_", "m", "o", "d", "i", "f", "i", "c", "a", "d", "o", "_", "p", "o", "r">>>>,
       <<<<"U", "n", "i", "d", "a", "d", " ", "d", "e", " ", "N", "e", "g", "o", "c", "i", "o">>,
         <<"v", "z", "l", "a", "_", "r", "e", "t", "e", "n", "i", "d", "a", "_", "u", "n", "i", "d", "a", "d", "_", "n", "e", "g", "o", "c", "i", "o">>>>,
       <<<<"T", "i", "p", "o", " ", "d", "e", " ", "P", "r", "o", "v", "e", "e", "d", "o", "r">>,
         <<"v", "z", "l", "a", "_", "r", "e", "t", "e", "n", "i", "d", "a", "_", "t", "i", "p", "o", "_", "p", "r", "o", "v", "e", "e", "d", "o", "r">>>>,
       <<<<"M", "o", "t", "i", "v", "o", " ", "d", "e", " ", "R", "e", "t", "e", "n", "c", "i", "ó", "n">>,
         <<"v", "z", "l", "a", "_", "r", "e", "t", "e", "n", "i", "d", "a", "_", "m", "o", "t", "i", "v", "o", "_", "r", "e", "t", "e", "n", "c", "i", "o", "n">>>>,
       <<<<"C", "o", "m", "e", "n", "t", "a", "r", "i", "o">>,
         <<"v", "z", "l", "a", "_", "r", "e", "t", "e", "n", "i", "d", "a", "_", "c", "o", "m", "e", "n", "t", "a", "r", "i", "o", "s">>>>,
       <<<<"E", "s", "p", "e", "c", "i", "a", "l", "i", "s", "t", "a", " ", "C", "o", "m", "e", "r", "c", "i", "a", "l">>,
         <<"v", "z", "l", "a", "_", "r", "e", "t", "e", "n", "i", "d", "a", "_", "e", "s", "p", "e", "c", "i", "a", "l", "i", "s", "t", "a", "_", "c", "o", "m", "e", "r", "c", "i", "a", "l">>>>,
       <<<<"C", "o", "m", "e", "n", "t", "a", "r", "i", "o", " ", "C", "X", "P">>,
         <<"v", "z", "l", "a", "_", "r", "e", "t", "e", "n", "i", "d", "a", "_", "c", "o", "m", "e", "n", "t", "a", "r", "i", "o", "_", "c", "x", "p">>>>,
       <<<<"C", "o", "m", "e", "n", "t", "a", "r", "i", "o", " ", "O", "p", "e", "r", "a", "c", "i", "ó", "n">>,
         <<"v", "z", "l", "a", "_", "r", "e", "t", "e", "n", "i", "d", "a", "_", "c", "o", "m", "e", "n", "t", "a", "r", "i", "o", "_", "o", "p", "e", "r", "a", "c", "i", "o", "n">>>>,
       <<<<"F", "e", "c", "h", "a", " ", "R", "e", "p", "o", "r", "t", "e", " ", "C", "X", "P">>,
         <<"v", "z", "l", "a", "_", "r", "e", "t", "e", "n", "i", "d", "a", "_", "f", "e", "c", "h", "a", "_", "r", "e", "p", "o", "r", "t", "e", "_", "c", "x", "p">>>>,
       <<<<"V", "a", "l", "i", "d", "a", "c", "i", "o", "n", " ", "d", "e", " ", "O", "C">>,
         <<"v", "z", "l", "a", "_", "r", "e", "t", "e", "n", "i", "d", "a", "_", "v", "a", "l", "i", "d", "a", "c", "i", "o", "n", "_", "o", "c">>>>,
       <<<<"D", "i", "f", "e", "r", "e", "n", "c", "i", "a", " ", "R", "e", "a", "l">>,
         <<"v", "z", "l", "a", "_", "r", "e", "t", "e", "n", "i", "d", "a", "_", "d", "i", "f", "e", "r", "e", "n", "c", "i", "a", "_", "r", "e", "a", "l">>>>,
       <<<<"V", "a", "l", "o", "r", " ", "R", "e", "a", "l", " ", "d", "e", " ", "U", "n", "i", "d", "a", "d", "e", "s">>,
         <<"v", "z", "l", "a", "_", "r", "e", "t", "e", "n", "i", "d", "a", "_", "v", "a", "l", "o", "r", "_", "r", "e", "a", "l", "_", "u", "n", "i", "d", "a", "d", "e", "s">>>>,
       <<<<"D", "i", "f", "e", "r", "e", "n", "c", "i", "a", " ", "U", "n", "i", "d", "a", "d", "e", "s">>,
         <<"v", "z", "l", "a", "_", "r", "e", "t", "e", "n", "i", "d", "a", "_", "d", "i", "f", "e", "r", "e", "n", "c", "i", "a", "_", "u", "n", "i", "d", "a", "d", "e", "s">>>>,
       <<<<"V", "a", "l", "o", "r", " ", "R", "e", "a", "l", " ", "d", "e", " ", "S", "u", "b", "t", "o", "t", "a", "l">>,
         <<"v", "z", "l", "a", "_", "r", "e", "t", "e", "n", "i", "d", "a", "_", "v", "a", "l", "o", "r", "_", "r", "e", "a", "l", "_", "s", "u", "b", "t", "o", "t", "a", "l">>>>,
       <<<<"D", "i", "f", "e", "r", "e", "n", "c", "i", "a", " ", "C", "o", "s", "t", "o">>,
         <<"v", "z", "l", "a", "_", "r", "e", "t", "e", "n", "i", "d", "a", "_", "d", "i", "f", "e", "r", "e", "n", "c", "i", "a", "_", "c", "o", "s", "t", "o">>>>,
       <<<<"A", "r", "e", "a">>,
         <<"v", "z", "l", "a", "_", "r", "e", "t", "e", "n", "i", "d", "a", "_", "a", "r", "e", "a">>>>,
       <<<<"G", "e", "r", "e", "n", "t", "e", " ", "d", "e", " ", "A", "r", "e", "a">>,
         <<"v", "z", "l", "a", "_", "r", "e", "t", "e", "n", "i", "d", "a", "_", "g", "e", "r", "e", "n", "t", "e", "_", "a", "r", "e", "a">>>>,
       <<<<"R", "a", "n", "g", "o", " ", "d", "e", " ", "f", "e", "c", "h", "a">>,
         <<"v", "z", "l", "a", "_", "r", "e", "t", "e", "n", "i", "d", "a", "_", "r", "a", "n", "g", "o", "_", "f", "e", "c", "h", "a">>>>,
       <<<<"0", "-", "3", "0">>,
         <<"v", "z", "l", "a", "_", "r", "e", "t", "e", "n", "i", "d", "a", "_", "0", "_", "3", "0">>>>,
       <<<<"3", "0", "-", "6", "0">>,
         <<"v", "z", "l", "a", "_", "r", "e", "t", "e", "n", "i", "d", "a", "_", "3", "0", "_", "6", "0">>>>,
       <<<<"6", "0", "-", "9", "0">>,
         <<"v", "z", "l", "a", "_", "r", "e", "t", "e", "n", "i", "d", "a", "_", "6", "0", "_", "9", "0">>>>,
       <<<<"9", "0", "-", "1", "2", "0">>,
         <<"v", "z", "l", "a", "_", "r", "e", "t", "e", "n", "i", "d", "a", "_", "9", "0", "_", "1", "2", "0">>>>,
       <<<<"+", "1", "2", "0">>,
         <<"v", "z", "l", "a", "_", "r", "e", "t", "e", "n", "i", "d", "a", "_", "m", "a", "s", "_", "1", "2", "0">>>> >>

\* upload_to_bigquery: the field names of the schema handed to the load
schema ==
    << <<"v", "z", "l", "a", "_", "r", "e", "t", "e", "n", "i", "d", "a", "_", "f", "e", "c", "h", "a", "_", "r", "e", "c", "e", "p", "c", "i", "o", "n">>,
       <<"v", "z", "l", "a", "_", "r", "e", "t", "e", "n", "i", "d", "a", "_", "c", "e", "n", "t", "r", "o", "_", "c", "o", "s", "t", "o">>,
       <<"v", "z", "l", "a", "_", "r", "e", "t", "e", "n", "i", "d", "a", "_", "t", "i", "e", "n", "d", "a">>,
       <<"v", "z", "l", "a", "_", "r", "e", "t", "e", "n", "i", "d", "a", "_", "p", "r", "o", "v", "e", "e", "d", "o", "r">>,
       <<"v", "z", "l", "a", "_", "r", "e", "t", "e", "n", "i", "d", "a", "_", "s", "u", "c", "u", "r", "s", "a", "l">>,
       <<"v", "z", "l", "a", "_", "r", "e", "t", "e", "n", "i", "d", "a", "_", "n", "u", "m", "e", "r", "o", "_", "f", "a", "c", "t", "u", "r", "a">>,
       <<"v", "z", "l", "a", "_", "r", "e", "t", "e", "n", "i", "d", "a", "_", "d", "o", "c", "u", "m", "e", "n", "t", "o">>,
       <<"v", "z", "l", "a", "_", "r", "e", "t", "e", "n", "i", "d", "a", "_", "e", "s", "t", "a", "d", "o">>,
       <<"v", "z", "l", "a", "_", "r", "e", "t", "e", "n", "i", "d", "a", "_", "o", "r", "d", "e", "n", "_", "c", "o", "m", "p", "r", "a">>,
       <<"v", "z", "l", "a", "_", "r", "e", "t", "e", "n", "i", "d", "a", "_", "f", "e", "c", "h", "a", "_", "f", "a", "c", "t", "u", "r", "a">>,
       <<"v", "z", "l", "a", "_", "r", "e", "t", "e", "n", "i", "d", "a", "_", "s", "u", "b", "t", "o", "t", "a", "l">>,
       <<"v", "z", "l", "a", "_", "r", "e", "t", "e", "n", "i", "d", "a", "_", "v", "a", "l", "o", "r", "_", "i", "m", "p", "u", "e", "s", "t", "o">>,
       <<"v", "z", "l", "a", "_", "r", "e", "t", "e", "n", "i", "d", "a", "_", "t", "o", "t", "a", "l", "_", "i", "m", "p", "u", "e", "s", "t", "o">>,
       <<"v", "z", "l", "a", "_", "r", "e", "t", "e", "n", "i", "d", "a", "_", "c", "o", "s", "t", "o", "_", "r", "e", "c", "e", "p", "c", "i", "o", "n">>,
       <<"v", "z", "l", "a", "_", "r", "e", "t", "e", "n", "i", "d", "a", "_", "d", "i", "f", "e", "r", "e", "n", "c", "i", "a">>,
       <<"v", "z", "l", "a", "_", "r", "e", "t", "e", "n", "i", "d", "a", "_", "u", "n", "i", "d", "a", "d", "e", "s", "_", "f", "a", "c", "t", "u", "r", "a">>,
       <<"v", "z", "l", "a", "_", "r", "e", "t", "e", "n", "i", "d", "a", "_", "u", "n", "i", "d", "a", "d", "e", "s", "_", "r", "e", "c", "i", "b", "i", "d", "a">>,
       <<"v", "z", "l", "a", "_", "r", "e", "t", "e", "n", "i", "d", "a", "_", "d", "i", "f", "e", "r", "e", "n", "c", "i", "a", "s">>,
       <<"v", "z", "l", "a", "_", "r", "e", "t", "e", "n", "i", "d", "a", "_", "f", "a", "c", "t", "u", "r", "a", "_", "f", "a", "l", "t", "a", "n", "t", "e">>,
       <<"v", "z", "l", "a", "_", "r", "e", "t", "e", "n", "i", "d", "a", "_", "t", "e", "r", "m", "i", "n", "o", "_", "p", "a", "g", "o">>,
       <<"v", "z", "l", "a", "_", "r", "e", "t", "e", "n", "i", "d", "a", "_", "f", "e", "c", "h", "a", "_", "v", "e", "n", "c", "i", "m", "i", "e", "n", "t", "o">>,
       <<"v", "z", "l", "a", "_", "r", "e", "t", "e", "n", "i", "d", "a", "_", "i", "n", "d", "i", "c", "a", "d", "o", "r", "_", "r", "t", "v">>,
       <<"v", "z", "l", "a", "_", "r", "e", "t", "e", "n", "i", "d", "a", "_", "o", "r", "d", "e", "n", "_", "r", "t", "v">>,
       <<"v", "z", "l", "a", "_", "r", "e", "t", "e", "n", "i", "d", "a", "_", "c", "o", "n", "s", "i", "g", "n", "a", "c", "i", "o", "n">>,
       <<"v", "z", "l", "a", "_", "r", "e", "t", "e", "n", "i", "d", "a", "_", "o", "r", "i", "g", "e", "n", "_", "d", "o", "c", "u", "m", "e", "n", "t", "o">>,
       <<"v", "z", "l", "a", "_", "r", "e", "t", "e", "n", "i", "d", "a", "_", "r", "a", "z", "o", "n", "_", "r", "e", "i", "m">>,
       <<"v", "z", "l", "a", "_", "r", "e", "t", "e", "n", "i", "d", "a", "_", "f", "e", "c", "h", "a", "_", "c", "r", "e", "a", "c", "i", "o", "n">>,
       <<"v", "z", "l", "a", "_", "r", "e", "t", "e", "n", "i", "d", "a", "_", "f", "e", "c", "h", "a", "_", "m", "o", "d", "i", "f", "i", "c", "a", "c", "i", "o", "n">>,
       <<"v", "z", "l", "a", "_", "r", "e", "t", "e", "n", "i", "d", "a", "_", "f", "e", "c", "h", "a", "_", "a", "p", "r", "o", "b", "a", "c", "i", "o", "n">>,
       <<"v", "z", "l", "a", "_", "r", "e", "t", "e", "n", "i", "d", "a", "_", "f", "e", "c", "h", "a", "_", "p", "u", "b", "l", "i", "c", "a", "c", "i", "o", "n">>,
       <<"v", "z", "l", "a", "_", "r", "e", "t", "e", "n", "i", "d", "a", "_", "c", "r", "e", "a", "d", "o", "_", "p", "o", "r">>,
       <<"v", "z", "l", "a", "_", "r", "e", "t", "e", "n", "i", "d", "a", "_", "m", "o", "d", "i", "f", "i", "c", "a", "d", "o", "_", "p", "o", "r">>,
       <<"v", "z", "l", "a", "_", "r", "e", "t", "e", "n", "i", "d", "a", "_", "u", "n", "i", "d", "a", "d", "_", "n", "e", "g", "o", "c", "i", "o">>,
       <<"v", "z", "l", "a", "_", "r", "e", "t", "e", "n", "i", "d", "a", "_", "t", "i", "p", "o", "_", "p", "r", "o", "v", "e", "e", "d", "o", "r">>,
       <<"v", "z", "l", "a", "_", "r", "e", "t", "e", "n", "i", "d", "a", "_", "m", "o", "t", "i", "v", "o", "_", "r", "e", "t", "e", "n", "c", "i", "o", "n">>,
       <<"v", "z", "l", "a", "_", "r", "e", "t", "e", "n", "i", "d", "a", "_", "c", "o", "m", "e", "n", "t", "a", "r", "i", "o", "s">>,
       <<"v", "z", "l", "a", "_", "r", "e", "t", "e", "n", "i", "d", "a", "_", "e", "s", "p", "e", "c", "i", "a", "l", "i", "s", "t", "a", "_", "c", "o", "m", "e", "r", "c", "i", "a", "l">>,
       <<"v", "z", "l", "a", "_", "r", "e", "t", "e", "n", "i", "d", "a", "_", "f", "e", "c", "h", "a", "_", "r", "e", "p", "o", "r", "t", "e", "_", "c", "x", "p">>,
       <<"v", "z", "l", "a", "_", "r", "e", "t", "e", "n", "i", "d", "a", "_", "c", "o", "m", "e", "n", "t", "a", "r", "i", "o", "_", "c", "x", "p">>,
       <<"v", "z", "l", "a", "_", "r", "e", "t", "e", "n", "i", "d", "a", "_", "c", "o", "m", "e", "n", "t", "a", "r", "i", "o", "_", "o", "p", "e", "r", "a", "c", "i", "o", "n">>,
       <<"v", "z", "l", "a", "_", "r", "e", "t", "e", "n", "i", "d", "a", "_", "v", "a", "l", "i", "d", "a", "c", "i", "o", "n", "_", "o", "c">>,
       <<"v", "z", "l", "a", "_", "r", "e", "t", "e", "n", "i", "d", "a", "_", "d", "i", "f", "e", "r", "e", "n", "c", "i", "a", "_", "r", "e", "a", "l">>,
       <<"v", "z", "l", "a", "_", "r", "e", "t", "e", "n", "i", "d", "a", "_", "v", "a", "l", "o", "r", "_", "r", "e", "a", "l", "_", "u", "n", "i", "d", "a", "d", "e", "s">>,
       <<"v", "z", "l", "a", "_", "r", "e", "t", "e", "n", "i", "d", "a", "_", "d", "i", "f", "e", "r", "e", "n", "c", "i", "a", "_", "u", "n", "i", "d", "a", "d", "e", "s">>,
       <<"v", "z", "l", "a", "_", "r", "e", "t", "e", "n", "i", "d", "a", "_", "v", "a", "l", "o", "r", "_", "r", "e", "a", "l", "_", "s", "u", "b", "t", "o", "t", "a", "l">>,
       <<"v", "z", "l", "a", "_", "r", "e", "t", "e", "n", "i", "d", "a", "_", "d", "i", "f", "e", "r", "e", "n", "c", "i", "a", "_", "c", "o", "s", "t", "o">>,
       <<"v", "z", "l", "a", "_", "r", "e", "t", "e", "n", "i", "d", "a", "_", "a", "r", "e", "a">>,
       <<"v", "z", "l", "a", "_", "r", "e", "t", "e", "n", "i", "d", "a", "_", "g", "e", "r", "e", "n", "t", "e", "_", "a", "r", "e", "a">>,
       <<"v", "z", "l", "a", "_", "r", "e", "t", "e", "n", "i", "d", "a", "_", "r", "a", "n", "g", "o", "_", "f", "e", "c", "h", "a">>,
       <<"v", "z", "l", "a", "_", "r", "e", "t", "e", "n", "i", "d", "a", "_", "0", "_", "3", "0">>,
       <<"v", "z", "l", "a", "_", "r", "e", "t", "e", "n", "i", "d", "a", "_", "3", "0", "_", "6", "0">>,
       <<"v", "z", "l", "a", "_", "r", "e", "t", "e", "n", "i", "d", "a", "_", "6", "0", "_", "9", "0">>,
       <<"v", "z", "l", "a", "_", "r", "e", "t", "e", "n", "i", "d", "a", "_", "9", "0", "_", "1", "2", "0">>,
       <<"v", "z", "l", "a", "_", "r", "e", "t", "e", "n", "i", "d", "a", "_", "m", "a", "s", "_", "1", "2", "0">>,
       <<"v", "z", "l", "a", "_", "r", "e", "t", "e", "n", "i", "d", "a", "_", "t", "i", "m", "e", "s", "t", "a", "m", "p">> >>

\* original_col in bq_mapping
in_bq_mapping(col) ==
    \E k \in 1..Len(get_bigquery_column_mapping) : get_bigquery_column_mapping[k][1] = col

\* bq_mapping[original_col]
bq_mapping(col) ==
    get_bigquery_column_mapping[CHOOSE k \in 1..Len(get_bigquery_column_mapping) :
                                   get_bigquery_column_mapping[k][1] = col][2]

\* the copy of the Grist normalization kept in denormalize_column_name_from_grist:
\* accents off, blanks and hyphens to underscores, "c" before a leading digit
\* or sign, runs of underscores collapsed, other characters dropped,
\* underscores trimmed
denormalize_col_normalized(col) ==
    LET col1 == [i \in 1..Len(col) |-> unaccent(col[i])]
        col2 == [i \in 1..Len(col1) |-> IF col1[i] \in {" ", "-"} THEN "_" ELSE col1[i]]
        col3 == IF col2 /= <<>> /\ (IsIn(Digits, col2[1]) \/ col2[1] \in {"+", "-", "_", "."})
                THEN <<"c">> \o col2 ELSE col2
    IN strip_underscores(SelectSeq(collapse_underscores(col3), is_word_char))

\* faulty variant of the search: the name is compared with the columns as they
\* are written, not with their normalized form
denormalize_column_name_from_grist_literal(normalized_name, original_columns) ==
    LET same(c) == strip(c) /= <<>> /\ strip(c) = normalized_name
    IN IF HasIndex(original_columns, same)
       THEN original_columns[FirstIndex(original_columns, same)]
       ELSE normalized_name

\* the first original column whose normalized form is the name, else the name
denormalize_column_name_from_grist(normalized_name, original_columns) ==
    LET same(c) == strip(c) /= <<>> /\ denormalize_col_normalized(strip(c)) = normalized_name
    IN IF HasIndex(original_columns, same)
       THEN original_columns[FirstIndex(original_columns, same)]
       ELSE normalized_name

\* convert_grist_columns_to_bigquery_schema, on the column names: df.rename
\* to the original names, then df.rename to the names of the warehouse; the
\* cells stay under their column
convert_grist_columns_to_bigquery_schema(grist_columns, original_columns) ==
    LET restored == [k \in 1..Len(grist_columns) |->
                        denormalize_column_name_from_grist(grist_columns[k], original_columns)]
    IN [k \in 1..Len(restored) |->
           IF in_bq_mapping(restored[k]) THEN bq_mapping(restored[k]) ELSE restored[k]]

\* most columns of a reference table, and of a snapshot, drawn at Init
MaxRefCols == 3

MaxSnapCols == 2

N_Otra_Columna == <<"O", "t", "r", "a", " ", "C", "o", "l", "u", "m", "n", "a">>

N_Fecha_Recepcion_plain == <<"F", "e", "c", "h", "a", " ", "R", "e", "c", "e", "p", "c", "i", "o", "n">>

N_manualSort == <<"m", "a", "n", "u", "a", "l", "S", "o", "r", "t">>

\* columns of an uploaded file and of the processed table: with a mapping
\* entry (accented, plain, beginning with a sign), and without one
RefNames == {Chars("Fecha Recepción"), Chars("Tienda"), Chars("+120"),
             N_Otra_Columna, N_Fecha_Recepcion_plain}

\* columns of a snapshot: the Grist names of those columns, and a column of
\* the destination's own
SnapNames == {normalize_column_name_for_grist(c) : c \in RefNames} \cup {N_manualSort}

\* the sequences of up to n distinct elements of S
DistinctSeqs(S, n) ==
    {q \in SeqsUpTo(S, n) : \A i \in 1..Len(q), j \in 1..Len(q) : q[i] = q[j] => i = j}

\* the reference table is in input (its columns), the snapshot in df_old_grist
InitProject ==
    /\ pc = "idle"
    /\ input \in {[cols |-> cols, rows |-> <<>>] : cols \in DistinctSeqs(RefNames, MaxRefCols)}
    /\ df = input
    /\ env = Env0
    /\ grist = <<>>
    /\ df_old_grist \in {Some([cols |-> cols, rows |-> <<>>]) :
                           cols \in DistinctSeqs(SnapNames, MaxSnapCols) \ {<<>>}}
    /\ locals = Locals0
    /\ response = <<>>
    /\ budget = Budget0

\* upload_to_bigquery, the call of convert_grist_columns_to_bigquery_schema
\* on the snapshot with df_processed as reference
ConvertColumns ==
    /\ pc = "idle"
    /\ response' = convert_grist_columns_to_bigquery_schema(The(df_old_grist).cols, input.cols)
    /\ pc' = "convert_grist_columns_to_bigquery_schema"
    /\ UNCHANGED <<input, df, env, grist, df_old_grist, locals, budget>>

NextProject == ConvertColumns

SpecProject == InitProject /\ [][NextProject]_vars

(***************************************************************************)
(* Numeric date columns of the warehouse load (venezuela.py)               *)
(***************************************************************************)
\* a converted cell: pd.NaT, or the day since 1970-01-01 and the second of
\* that day
NaT == [nat |-> TRUE, day |-> 0, sec |-> 0]

Timestamp(day, sec) == [nat |-> FALSE, day |-> day, sec |-> sec]

\* abs(float(x))
py_abs(i) == IF i < 0 THEN 0 - i ELSE i

\* the days from 1899-12-30, excel_epoch, to 1970-01-01
excel_epoch_days == 25569

seconds_per_day == 86400

\* datetime.min and datetime.max as days since 1970-01-01: beyond them
\* excel_epoch + timedelta(days=...) raises OverflowError
datetime_min_day == 0 - 719162

datetime_max_day == 2932896

\* the thresholds of the sample value
unix_above == 1000000

excel_below == 100000

\* pd.to_datetime(x, unit='s', errors='coerce') of one cell; the seconds
\* drawn are far inside the range of datetime64[ns]
to_datetime_s(c) ==
    IF notna(c) THEN Timestamp(c.n \div seconds_per_day, c.n % seconds_per_day) ELSE NaT

\* excel_epoch + timedelta(days=int(x)) if pd.notna(x) else pd.NaT
excel_date(c) ==
    IF notna(c) THEN Timestamp(c.n - excel_epoch_days, 0) ELSE NaT

excel_raises(c) ==
    notna(c) /\ (c.n - excel_epoch_days < datetime_min_day \/ c.n - excel_epoch_days > datetime_max_day)

\* faulty variant: the format is decided value by value
convert_date_column_each(values) ==
    [converted |-> TRUE,
     values |-> [k \in 1..Len(values) |->
                    IF notna(values[k]) /\ py_abs(values[k].n) < excel_below /\ ~excel_raises(values[k])
                    THEN excel_date(values[k]) ELSE to_datetime_s(values[k])]]

\* upload_to_bigquery, one numeric column of date_columns: the format is
\* decided by the first value that is not null; an exception leaves the
\* column as it was
convert_date_column(values) ==
    LET sample_values == SelectSeq(values, notna)
    IN IF sample_values = <<>>
       THEN [converted |-> TRUE, values |-> [k \in 1..Len(values) |-> NaT]]
       ELSE LET sample_value == py_abs(sample_values[1].n)
            IN IF sample_value > unix_above
               THEN [converted |-> TRUE,
                     values |-> [k \in 1..Len(values) |-> to_datetime_s(values[k])]]
               ELSE IF sample_value < excel_below
               THEN IF \E k \in 1..Len(values) : excel_raises(values[k])
                    THEN [converted |-> FALSE, values |-> values]
                    ELSE [converted |-> TRUE,
                          values |-> [k \in 1..Len(values) |-> excel_date(values[k])]]
               ELSE [converted |-> TRUE,
                     values |-> [k \in 1..Len(values) |-> to_datetime_s(values[k])]]

\* most values of a date column drawn at Init
MaxDateRows == 3

\* day-counts, Unix seconds, the two thresholds and their neighbours, a
\* value before 1970, and a missing value
DateValues == {NaN, Num(45000), Num(99999), Num(100000), Num(500000), Num(1000000),
               Num(1000001), Num(1700000000), Num(0 - 2000000)}

\* a numeric date column of the table handed to upload_to_bigquery, in input
InitDates ==
    /\ pc = "idle"
    /\ input \in SeqsUpTo(DateValues, MaxDateRows) \ {<<>>}
    /\ df = [cols |-> <<>>, rows |-> <<>>]
    /\ env = Env0
    /\ grist = <<>>
    /\ df_old_grist = None
    /\ locals = Locals0
    /\ response = <<>>
    /\ budget = Budget0

ConvertDates ==
    /\ pc = "idle"
    /\ response' = convert_date_column(input)
    /\ pc' = "date_columns"
    /\ UNCHANGED <<input, df, env, grist, df_old_grist, locals, budget>>

NextDates == ConvertDates

SpecDates == InitDates /\ [][NextDates]_vars

(***************************************************************************)
(* add_comentarios_from_grist on snapshots whose columns come in any order *)
(***************************************************************************)
FieldComentarioOperacion == normalize_column_name_for_grist(Chars("Comentario Operación"))

V_op == <<"o", "p">>

\* the invoice column of a snapshot, named as in the uploaded file or as
\* process_grist names the field
InvoiceColumns == {Chars("Número Factura"), FieldNumeroFactura}

\* the columns of a snapshot: the invoice column and the three comment
\* columns /process uploads, in every order
SnapshotColumnOrders ==
    {q \in [1..4 -> InvoiceColumns
                    \cup {FieldComentario, FieldComentarioCXP, FieldComentarioOperacion}] :
        /\ \A i \in 1..4, j \in 1..4 : q[i] = q[j] => i = j
        /\ \E i \in 1..4 : q[i] \in InvoiceColumns
        /\ \A f \in {FieldComentario, FieldComentarioCXP, FieldComentarioOperacion} :
              \E i \in 1..4 : q[i] = f}

\* one snapshot row for invoice A-100, its three comments typed in or empty
SnapshotRow(cols, comentario, cxp, operacion) ==
    [k \in {cols[j] : j \in 1..Len(cols)} |->
        IF k = FieldComentario THEN Txt(comentario)
        ELSE IF k = FieldComentarioCXP THEN Txt(cxp)
        ELSE IF k = FieldComentarioOperacion THEN Txt(operacion)
        ELSE Txt(V_A_100)]

\* df_processed: one row for invoice A-100
TableA100 ==
    [cols |-> <<"Número Factura">>, rows |-> <<[k \in {"Número Factura"} |-> Txt(V_A_100)]>>]

InitSelect ==
    /\ pc = "idle"
    /\ input = TableA100
    /\ df = TableA100
    /\ env = Env0
    /\ grist = <<>>
    /\ df_old_grist \in
          {Some([cols |-> cols, rows |-> <<SnapshotRow(cols, comentario, V_x, operacion)>>]) :
              cols \in SnapshotColumnOrders,
              comentario \in {<<>>, V_hello}, operacion \in {<<>>, V_op}}
    /\ locals = Locals0
    /\ response = <<>>
    /\ budget = Budget0

\* process_file, line 379: the call of add_comentarios_from_grist
AddComentarios ==
    /\ pc = "idle"
    /\ df' = add_comentarios_from_grist(df, df_old_grist)
    /\ pc' = "add_comentarios_from_grist"
    /\ UNCHANGED <<input, env, grist, df_old_grist, locals, response, budget>>

NextSelect == AddComentarios

SpecSelect == InitSelect /\ [][NextSelect]_vars

(***************************************************************************)
(* Properties of process_dataframe                                         *)
(***************************************************************************)
Returned == pc = "returned"

\* the rows of the input that are not blank and whose invoice number, as
\* text, does not begin with the upper-case letters NDINT
Survives(r) ==
    /\ \E c \in DOMAIN r : r[c].k /= "nan"
    /\ ~startswith(py_str(r["Número Factura"]), S_NDINT)

Survivors == SelectSeq(input.rows, Survives)

RECURSIVE SeqSum(_)
SeqSum(q) == IF q = <<>> THEN 0 ELSE Head(q) + SeqSum(Tail(q))

\* the rows of the input, in position order, that share row i's purchase order text
SameOrden(S, i) == {j \in 1..Len(S) : py_str(S[j]["Orden Compra"]) = py_str(S[i]["Orden Compra"])}

SumSameOrden(S, i, col) ==
    SeqSum([j \in 1..Len(S) |-> IF j \in SameOrden(S, i)
                                THEN to_numeric_fillna0(S[j][col]).n ELSE 0])

AfterFilter == pc \notin {"remove_empty_rows", "remove_ndint_invoices"}

\* C10: once the two filter steps have run, the table holds exactly the
\* non-blank input rows whose text-coerced "Número Factura" does not start with
\* the case-sensitive prefix NDINT, in their original order; right after the
\* filter they are the input rows themselves but for the coerced invoice cell.
C10_RowFilter ==
    AfterFilter =>
        /\ NRows(df) = Len(Survivors)
        /\ \A i \in 1..NRows(df) :
              df.rows[i]["Número Factura"] = Txt(py_str(Survivors[i]["Número Factura"]))
        /\ pc = "add_unidad_negocio_column" =>
              /\ df.cols = input.cols
              /\ \A i \in 1..NRows(df) : \A c \in InputColSet \ {"Número Factura"} :
                    df.rows[i][c] = Survivors[i][c]

\* three input rows, one blank, one NDINT-55, one ordinary: one row is left
C10_Witness ==
    /\ Returned
    /\ Len(input.rows) = 3
    /\ \E i, j, k \in 1..3 :
          /\ input.rows[i] = BlankRow
          /\ input.rows[j]["Número Factura"] = Txt(V_NDINT_55)
          /\ input.rows[k]["Número Factura"] = Txt(V_ndint_5)
    /\ NRows(df) = 1
    /\ df.rows[1]["Número Factura"] = Txt(V_ndint_5)

HasTipo == HasCol(df, "Tipo de Proveedor")

IsPPVSucursal(r) ==
    LET s == upper(strip(py_str(r["Sucursal"])))
    IN endswith(s, S_PPV) \/ endswith(s, S_PPV2) \/ endswith(s, S_PPV3)

IsCendisTienda(r) == upper(strip(py_str(r["Tienda"]))) = S_CENDIS

\* C4: "Tipo de Proveedor" is PPV, CENDIS or Directo; PPV exactly when the
\* trimmed, case-folded "Sucursal" ends with PPV, PPV2 or PPV3; otherwise CENDIS
\* exactly when the trimmed, case-folded "Tienda" is CENDIS; otherwise Directo.
C4_TipoProveedor ==
    HasTipo =>
        \A i \in 1..NRows(df) :
            LET r == df.rows[i]
                tipo == r["Tipo de Proveedor"]
            IN /\ tipo \in {Txt(S_PPV), Txt(S_CENDIS), Txt(S_Directo)}
               /\ tipo = Txt(S_PPV) <=> IsPPVSucursal(r)
               /\ tipo = Txt(S_CENDIS) <=> (~IsPPVSucursal(r) /\ IsCendisTienda(r))
               /\ tipo = Txt(S_Directo) <=> (~IsPPVSucursal(r) /\ ~IsCendisTienda(r))

\* a row that qualifies for both PPV and CENDIS came out as PPV
C4_Witness ==
    /\ Returned
    /\ \E i \in 1..NRows(df) :
          /\ IsPPVSucursal(df.rows[i]) /\ IsCendisTienda(df.rows[i])
          /\ df.rows[i]["Tipo de Proveedor"] = Txt(S_PPV)
    /\ \E i \in 1..NRows(df) :
          /\ ~IsPPVSucursal(df.rows[i]) /\ IsCendisTienda(df.rows[i])
          /\ df.rows[i]["Tipo de Proveedor"] = Txt(S_CENDIS)

IsImpuesto(r) == strip(py_str(r["Estado"])) = S_DISCREPANCIA_DE_IMPUESTO

\* C2: a row whose trimmed "Estado" is exactly DISCREPANCIA DE IMPUESTO ends
\* with "Motivo de Retención" = Discrepancia en Impuesto, whatever its provider
\* type and its units difference.
C2_ImpuestoWins ==
    Returned =>
        \A i \in 1..NRows(df) :
            IsImpuesto(df.rows[i])
                => df.rows[i]["Motivo de Retención"] = Txt(S_Discrepancia_en_Impuesto)

\* a PPV row with a zero units difference and the tax status kept the tax reason
C2_Witness ==
    /\ Returned
    /\ \E i \in 1..NRows(df) :
          /\ IsImpuesto(df.rows[i])
          /\ df.rows[i]["Tipo de Proveedor"] = Txt(S_PPV)
          /\ df.rows[i]["Diferencia Unidades"] = Num(0)
          /\ df.rows[i]["Motivo de Retención"] = Txt(S_Discrepancia_en_Impuesto)

\* C3: at the end every row's "Motivo de Retención" is one of the three
\* reasons, by priority: Impuesto when the status matches; else Costos when the
\* row is PPV or its units difference is zero or null; else Unidades.
C3_MotivoPriority ==
    Returned =>
        \A i \in 1..NRows(df) :
            LET r == df.rows[i]
                zero_or_null == r["Diferencia Unidades"].k = "nan" \/ r["Diferencia Unidades"].n = 0
            IN r["Motivo de Retención"] =
                  IF IsImpuesto(r) THEN Txt(S_Discrepancia_en_Impuesto)
                  ELSE IF r["Tipo de Proveedor"] = Txt(S_PPV) \/ zero_or_null
                       THEN Txt(S_Discrepancia_en_Costos)
                       ELSE Txt(S_Discrepancia_en_Unidades)

\* one table shows a cost row by zero difference and a units row
C3_Witness ==
    /\ Returned
    /\ \E i, j \in 1..NRows(df) :
          /\ ~IsImpuesto(df.rows[i]) /\ df.rows[i]["Tipo de Proveedor"] /= Txt(S_PPV)
          /\ df.rows[i]["Diferencia Unidades"] = Num(0)
          /\ df.rows[i]["Motivo de Retención"] = Txt(S_Discrepancia_en_Costos)
          /\ ~IsImpuesto(df.rows[j]) /\ df.rows[j]["Tipo de Proveedor"] /= Txt(S_PPV)
          /\ df.rows[j]["Diferencia Unidades"].n /= 0
          /\ df.rows[j]["Motivo de Retención"] = Txt(S_Discrepancia_en_Unidades)

Buckets == <<"0-30", "30-60", "60-90", "90-120", "+120">>

BucketsAt(r) == SeqSum([b \in 1..Len(Buckets) |-> r[Buckets[b]].n])

\* C5: of the five bucket columns exactly one is 1 and the others 0, except
\* that all five are 0 when (and only when) "Rango de fecha" is negative; the
\* buckets change at 30/31, 60/61, 90/91 and 120/121.
C5_Buckets ==
    Returned =>
        \A i \in 1..NRows(df) :
            LET r == df.rows[i]
                rango == r["Rango de fecha"].n
            IN /\ \A b \in 1..Len(Buckets) : r[Buckets[b]] \in {Num(0), Num(1)}
               /\ BucketsAt(r) = (IF rango < 0 THEN 0 ELSE 1)
               /\ r["0-30"] = Num(1) <=> (0 <= rango /\ rango <= 30)
               /\ r["30-60"] = Num(1) <=> (31 <= rango /\ rango <= 60)
               /\ r["60-90"] = Num(1) <=> (61 <= rango /\ rango <= 90)
               /\ r["90-120"] = Num(1) <=> (91 <= rango /\ rango <= 120)
               /\ r["+120"] = Num(1) <=> (121 <= rango)

\* a table with a row at exactly 30 days, in "0-30" only, and a row at exactly
\* 31 days, in "30-60" only
C5_Witness ==
    /\ Returned
    /\ \E i, j \in 1..NRows(df) :
          /\ df.rows[i]["Rango de fecha"] = Num(30)
          /\ df.rows[i]["0-30"] = Num(1) /\ df.rows[i]["30-60"] = Num(0)
          /\ df.rows[j]["Rango de fecha"] = Num(31)
          /\ df.rows[j]["0-30"] = Num(0) /\ df.rows[j]["30-60"] = Num(1)

AfterUnidades ==
    HasCol(df, "Valor Real de Unidades") /\ HasCol(df, "Diferencia Unidades")

\* C6: every surviving row's "Valor Real de Unidades" is the sum of the units
\* (a non-numeric cell counting 0) of the surviving rows with its purchase
\* order, and its "Diferencia Unidades" is that sum minus its own received units.
C6_UnitsAggregate ==
    AfterUnidades =>
        \A i \in 1..NRows(df) :
            /\ df.rows[i]["Valor Real de Unidades"]
                  = Num(SumSameOrden(Survivors, i, "Unidades por Factura"))
            /\ df.rows[i]["Diferencia Unidades"]
                  = Num(SumSameOrden(Survivors, i, "Unidades por Factura")
                        - to_numeric_fillna0(Survivors[i]["Unidades Recibidas"]).n)

\* two surviving rows of one purchase order, one with 2 units and one with a
\* non-numeric units cell: both carry the sum 2
C6_Witness ==
    /\ Returned
    /\ Len(Survivors) = 2
    /\ Survivors[1]["Unidades por Factura"] = Num(2)
    /\ Survivors[2]["Unidades por Factura"] = Txt(V_x)
    /\ SameOrden(Survivors, 1) = {1, 2}
    /\ \A i \in 1..2 : /\ df.rows[i]["Valor Real de Unidades"] = Num(2)
                       /\ df.rows[i]["Diferencia Unidades"] = Num(0)

\* C7: every surviving row's "Validacion de OC" is the number of surviving
\* rows with its purchase order, and its units sum and subtotal sum are taken
\* over the surviving rows only.
C7_FilteredAggregates ==
    Returned =>
        \A i \in 1..NRows(df) :
            /\ df.rows[i]["Validacion de OC"] = Num(Cardinality(SameOrden(Survivors, i)))
            /\ df.rows[i]["Valor Real de Unidades"]
                  = Num(SumSameOrden(Survivors, i, "Unidades por Factura"))
            /\ df.rows[i]["Valor Real de Subtotal"]
                  = Num(SumSameOrden(Survivors, i, "SubTotal"))

\* an NDINT row with the purchase order and units of the one surviving row
\* was left out of that row's count and sums
C7_Witness ==
    /\ Returned
    /\ Len(input.rows) = 2 /\ NRows(df) = 1
    /\ \E j \in 1..2 :
          /\ startswith(py_str(input.rows[j]["Número Factura"]), S_NDINT)
          /\ py_str(input.rows[j]["Orden Compra"]) = py_str(Survivors[1]["Orden Compra"])
          /\ input.rows[j]["Unidades por Factura"] = Num(2)
    /\ df.rows[1]["Validacion de OC"] = Num(1)
    /\ df.rows[1]["Valor Real de Unidades"] = Num(2)
    /\ df.rows[1]["Valor Real de Subtotal"] = Num(10)

(***************************************************************************)
(* Properties of the /process handler                                      *)
(***************************************************************************)

\* the stages of a request after the comments were merged into df_processed
Reconciled == pc \in {"upload_to_storage", "process_grist", "grist_get_ids", "grist_delete",
                      "grist_upload", "grist_result", "upload_to_bigquery", "respond"}

\* the snapshot row's invoice number, as the key both sides are matched on
SnapshotKey(old, i) ==
    IF IsIn(old.cols, FieldNumeroFactura) /\ notna(old.rows[i][FieldNumeroFactura])
    THEN numero_factura_normalized(py_str(old.rows[i][FieldNumeroFactura]))
    ELSE <<>>

\* the text the snapshot row holds in field f, empty if it holds none
SnapshotText(old, i, f) ==
    IF IsIn(old.cols, f) /\ old.rows[i][f].k = "str" THEN old.rows[i][f].s ELSE <<>>

RowKey(r) == numero_factura_normalized(py_str(r["Número Factura"]))

CommentFields == {<<FieldComentario, "Comentario">>, <<FieldComentarioCXP, "Comentario CXP">>}

\* C1: when the snapshot read from the destination table, whose field names
\* are the normalized ones process_grist wrote, holds a non-empty Comentario
\* (resp. Comentario CXP) for invoice X, the row for X of the table of this
\* request carries that comment, and after a complete replacement of the
\* destination table its record for X holds it.
C1_CarryForward ==
    (Reconciled /\ ~IsNone(df_old_grist) /\ HasCol(df, "Número Factura")) =>
        LET old == The(df_old_grist)
        IN \A i \in 1..NRows(old) : \A r \in 1..NRows(df) : \A fc \in CommentFields :
              (/\ SnapshotKey(old, i) /= <<>>
               /\ SnapshotKey(old, i) = RowKey(df.rows[r])
               /\ SnapshotText(old, i, fc[1]) /= <<>>)
              => /\ df.rows[r][fc[2]] = Txt(SnapshotText(old, i, fc[1]))
                 /\ (pc = "respond" /\ locals.grist_cleared /\ locals.success)
                       => \E g \in 1..Len(grist) :
                             grist[g].fields[fc[1]] = Txt(SnapshotText(old, i, fc[1]))

\* C8: a row whose invoice number has the key of a snapshot row with a
\* non-empty comment gets the comment of such a row as its Comentario; a row
\* whose key no snapshot row has keeps the empty string.
C8_MatchOnNormalizedKey ==
    (Reconciled /\ ~IsNone(df_old_grist) /\ HasCol(df, "Número Factura")) =>
        LET old == The(df_old_grist)
        IN \A r \in 1..NRows(df) :
              LET matches == {i \in 1..NRows(old) :
                                /\ SnapshotKey(old, i) = RowKey(df.rows[r])
                                /\ SnapshotText(old, i, FieldComentario) /= <<>>}
              IN /\ matches /= {} =>
                       \E i \in matches :
                          df.rows[r]["Comentario"] = Txt(SnapshotText(old, i, FieldComentario))
                 /\ (\A i \in 1..NRows(old) : SnapshotKey(old, i) /= RowKey(df.rows[r]))
                       => df.rows[r]["Comentario"] = Txt(<<>>)

\* no snapshot, an empty one, no invoice column in the table of the request,
\* or none in the snapshot
Degraded ==
    \/ IsNone(df_old_grist)
    \/ empty(The(df_old_grist))
    \/ ~HasCol(df, "Número Factura")
    \/ \A j \in 1..Len(The(df_old_grist).cols) :
          /\ The(df_old_grist).cols[j] /= FieldNumeroFactura
          /\ ~is_numero_factura_col(The(df_old_grist).cols[j])

\* C9: in the degraded cases the table of the request has both comment columns
\* after the merge, and every row holds the empty string in both.
C9_DegradedReconciliation ==
    (Reconciled /\ Degraded) =>
        /\ HasCol(df, "Comentario") /\ HasCol(df, "Comentario CXP")
        /\ \A r \in 1..NRows(df) :
              /\ df.rows[r]["Comentario"] = Txt(<<>>)
              /\ df.rows[r]["Comentario CXP"] = Txt(<<>>)

\* a request with an invoice column met a snapshot with records but without one
C9_Witness ==
    /\ Reconciled
    /\ ~IsNone(df_old_grist) /\ ~empty(The(df_old_grist))
    /\ ~IsIn(The(df_old_grist).cols, FieldNumeroFactura)
    /\ HasCol(df, "Número Factura")
    /\ NRows(df) = 1
    /\ df.rows[1]["Comentario"] = Txt(<<>>) /\ df.rows[1]["Comentario CXP"] = Txt(<<>>)

(***************************************************************************)
(* C11  Idempotence: a second run of process_dataframe, on the same input  *)
(* table or on the table the first run returned, with the same reference   *)
(* mappings and the same current date, yields the values of the first run  *)
(* in every derived column.                                                *)
(***************************************************************************)
DerivedCols ==
    {"Unidad de Negocio", "Tipo de Proveedor", "Motivo de Retención", "Validacion de OC",
     "Diferencia Real", "Valor Real de Unidades", "Diferencia Unidades",
     "Valor Real de Subtotal", "Diferencia Costo", "Area", "Gerente de Area",
     "Rango de fecha", "0-30", "30-60", "60-90", "90-120", "+120",
     "Especialista Comercial"}

SameDerived(a, b) ==
    /\ NRows(a) = NRows(b)
    /\ \A c \in DerivedCols :
          /\ HasCol(a, c) <=> HasCol(b, c)
          /\ HasCol(a, c) => \A i \in 1..NRows(a) : a.rows[i][c] = b.rows[i][c]

Complete(t) ==
    \A c \in DerivedCols : HasCol(t, c) /\ \A i \in 1..NRows(t) : notna(t.rows[i][c])

C12_NoPartialRows ==
    [][pc = "process_dataframe" => (pc' = "returned" /\ Complete(df'))]_vars

C12_Witness ==
    /\ pc = "returned"
    /\ ~IsIn(input.cols, "Orden Compra")
    /\ ~IsIn(input.cols, "Tienda")
    /\ ~IsIn(input.cols, "Fecha Recepción")
    /\ NRows(df) = 2
    /\ Complete(df)

(***************************************************************************)
(* C13  Missing-prerequisite default.  A step that adds a column and is    *)
(* called on a table without its prerequisite column(s) fills its target   *)
(* column in every row with the step's default.                            *)
(***************************************************************************)
\* the column a step adds, "" for the steps that add none
StepTarget ==
    <<"", "", "Unidad de Negocio", "Tipo de Proveedor", "Motivo de Retención",
      "Validacion de OC", "Diferencia Real", "Valor Real de Unidades", "Diferencia Unidades",
      "", "Valor Real de Subtotal", "Diferencia Costo", "", "Area", "Gerente de Area", "",
      "Rango de fecha", "0-30", "30-60", "60-90", "90-120", "+120",
      "Especialista Comercial">>

TextTargets ==
    {"Unidad de Negocio", "Tipo de Proveedor", "Motivo de Retención", "Diferencia Real",
     "Area", "Gerente de Area", "Especialista Comercial"}

DerivationSteps == {n \in 1..LastStep : StepTarget[n] /= ""}

\* the table lacks what step n needs to compute its column
LacksPrerequisite(n, t) ==
    CASE n \in {3, 23} -> ~HasCol(t, "Sucursal")
      [] n = 4 -> ~HasCol(t, "Sucursal") /\ ~HasCol(t, "Tienda")
      [] n = 5 -> ~HasCol(t, "Estado") /\ ~HasCol(t, "Tipo de Proveedor")
      [] n = 6 -> ~HasCol(t, "Orden Compra")
      [] n = 7 -> ~HasCol(t, "Validacion de OC")
      [] n = 8 -> ~HasCol(t, "Orden Compra") \/ ~HasCol(t, "Unidades por Factura")
      [] n = 9 -> ~HasCol(t, "Valor Real de Unidades") \/ ~HasCol(t, "Unidades Recibidas")
      [] n = 11 -> ~HasCol(t, "Orden Compra") \/ ~HasCol(t, "SubTotal")
      [] n = 12 -> ~HasCol(t, "Valor Real de Subtotal") \/ ~HasCol(t, "Costo Recepcion")
      [] n \in {14, 15} -> ~HasCol(t, "Tienda")
      [] n = 17 -> ~HasCol(t, "Fecha Recepción")
      [] n \in 18..22 -> ~HasCol(t, "Rango de fecha")
      [] OTHER -> FALSE

FilledWith(t, c, v) == HasCol(t, c) /\ \A i \in 1..NRows(t) : t.rows[i][c] = v

StepDefault(n) ==
    CASE n = 4 -> Txt(S_Directo)
      [] n = 7 -> Txt(S_Revisar)
      [] StepTarget[n] \in TextTargets -> Txt(<<>>)
      [] OTHER -> Num(0)

C15_DuplicatedIsNoAplica ==
    Returned =>
        \A i \in 1..NRows(df) :
            /\ df.rows[i]["Validacion de OC"].n > 1
                  => df.rows[i]["Diferencia Real"] = Txt(S_No_Aplica)
            /\ df.rows[i]["Validacion de OC"].n <= 1
                  => df.rows[i]["Diferencia Real"] = Txt(S_Revisar)

(***************************************************************************)
(* C16  CENDIS override: when step 16 has run, every row whose "Tienda",   *)
(* trimmed and upper-cased, is 'CENDIS' has "Area" = 'CENDIS' and          *)
(* "Gerente de Area" = '', whatever steps 14 and 15 looked up; every other *)
(* row keeps the "Area" and "Gerente de Area" steps 14 and 15 gave it.     *)
(***************************************************************************)
C16_CendisOverride ==
    [][(pc = "validate_cendis_area" /\ pc' /= pc) =>
          /\ NRows(df') = NRows(df)
          /\ \A i \in 1..NRows(df) :
                IF IsCendisTienda(df.rows[i])
                THEN /\ df'.rows[i]["Area"] = Txt(S_CENDIS)
                     /\ df'.rows[i]["Gerente de Area"] = Txt(<<>>)
                ELSE /\ df'.rows[i]["Area"] = df.rows[i]["Area"]
                     /\ df'.rows[i]["Gerente de Area"] = df.rows[i]["Gerente de Area"]]_vars

C16_Witness ==
    /\ pc = "add_rango_fecha_column"
    /\ \E i, j \in 1..NRows(df) :
          /\ IsCendisTienda(df.rows[i])
          /\ df.rows[i]["Tienda"] /= Txt(S_CENDIS)
          /\ df.rows[i]["Area"] = Txt(S_CENDIS)
          /\ df.rows[i]["Gerente de Area"] = Txt(<<>>)
          /\ ~IsCendisTienda(df.rows[j])
          /\ df.rows[j]["Area"] = Txt(V_Norte)
          /\ df.rows[j]["Gerente de Area"] = Txt(V_Ana)

(***************************************************************************)
(* C17  LookupUnavailable.  When the credentials or the spreadsheet id are *)
(* missing, or a builder's sheet cannot be read, has no such worksheet or  *)
(* lacks a required column, the builder returns an empty mapping, the      *)
(* derived columns that depend on it are the empty string in every row,    *)
(* and the pipeline runs to its end.                                       *)
(***************************************************************************)
NoAccess(e) == ~e.credentials \/ ~e.spreadsheet_id

ProviderUnavailable(e) == NoAccess(e) \/ e.provider \in {UnreadableSheet, ProviderSheetNoUnidad}

TiendaUnavailable(e) == NoAccess(e) \/ e.tienda \in {UnreadableSheet, TiendaSheetNoArea}

EspecialistaUnavailable(e) ==
    NoAccess(e) \/ e.especialista \in {UnreadableSheet, EspecialistaSheetNoEspecialista}

\* the builders whose sheet is unusable return an empty mapping
EmptyMappings(e) ==
    /\ e.provider \in {UnreadableSheet, ProviderSheetNoUnidad}
          => IsEmptyDict(get_provider_mapping(e.provider))
    /\ e.tienda \in {UnreadableSheet, TiendaSheetNoArea}
          => /\ IsEmptyDict(get_tienda_mapping(e.tienda).area)
             /\ IsEmptyDict(get_tienda_mapping(e.tienda).gerente)
    /\ e.especialista \in {UnreadableSheet, EspecialistaSheetNoEspecialista}
          => IsEmptyDict(get_especialista_mapping(e.especialista))

\* C17 as stated: every dependent column is empty in every row
C17_LookupUnavailable ==
    Returned =>
        /\ EmptyMappings(env)
        /\ Complete(df)
        /\ ProviderUnavailable(env) => FilledWith(df, "Unidad de Negocio", Txt(<<>>))
        /\ TiendaUnavailable(env) =>
              FilledWith(df, "Area", Txt(<<>>)) /\ FilledWith(df, "Gerente de Area", Txt(<<>>))
        /\ EspecialistaUnavailable(env) => FilledWith(df, "Especialista Comercial", Txt(<<>>))

\* C17 amended: "Area" is 'CENDIS', not empty, in the rows whose store is CENDIS
C17_LookupUnavailableButCendis ==
    Returned =>
        /\ EmptyMappings(env)
        /\ Complete(df)
        /\ ProviderUnavailable(env) => FilledWith(df, "Unidad de Negocio", Txt(<<>>))
        /\ TiendaUnavailable(env) =>
              /\ FilledWith(df, "Gerente de Area", Txt(<<>>))
              /\ \A i \in 1..NRows(df) :
                    df.rows[i]["Area"] =
                        IF IsCendisTienda(df.rows[i]) THEN Txt(S_CENDIS) ELSE Txt(<<>>)
        /\ EspecialistaUnavailable(env) => FilledWith(df, "Especialista Comercial", Txt(<<>>))

C17_Witness ==
    /\ Returned
    /\ env.tienda = TiendaSheetNoArea
    /\ NRows(df) = 2
    /\ \E i, j \in 1..2 :
          /\ IsCendisTienda(df.rows[i]) /\ df.rows[i]["Area"] = Txt(S_CENDIS)
          /\ ~IsCendisTienda(df.rows[j]) /\ df.rows[j]["Area"] = Txt(<<>>)
          /\ df.rows[j]["Unidad de Negocio"] = Txt(V_Alimentos)

(***************************************************************************)
(* C19  What process_grist returns is one of three outcomes: every row     *)
(* uploaded, some rows uploaded, nothing uploaded.  When some but not all  *)
(* of the insert batches fail it returns success = False with              *)
(* grist_new_data_uploaded = True and one failed_batches entry per failed  *)
(* batch, and the batches after a failed one are still sent.               *)
(***************************************************************************)
GristReturned == pc = "grist_result"

total_batches == (NRows(df) + batch_size - 1) \div batch_size

\* the rows of batch b, by their number in df
BatchRows(b) == ((b - 1) * batch_size + 1)..Min2(b * batch_size, NRows(df))

InsertedInvoices == {grist[g].fields[FieldNumeroFactura] : g \in 1..Len(grist)}

BatchInserted(b) == \A i \in BatchRows(b) : df.rows[i]["Número Factura"] \in InsertedInvoices

FailedBatchNumbers == {locals.failed_batches[k].batch : k \in 1..Len(locals.failed_batches)}

AllUploaded ==
    locals.success /\ locals.grist_new_data_uploaded /\ locals.uploaded_rows = NRows(df)

PartlyUploaded ==
    /\ ~locals.success /\ locals.grist_new_data_uploaded
    /\ 0 < locals.uploaded_rows /\ locals.uploaded_rows < NRows(df)

NothingUploaded ==
    ~locals.success /\ ~locals.grist_new_data_uploaded /\ locals.uploaded_rows = 0

FaultStep == budget'.faults > budget.faults

\* where a failure at stage pc leaves the run: a failure of the handler ends it
\* with status 500; a failed upload is written into the result and the next
\* stage is entered; a failed read (of the snapshot, of the ids) is passed over
FailureHandled ==
    CASE pc = "get_old_grist" -> pc' = "reconcile"
      [] pc = "reconcile" -> pc' = "idle" /\ response' = 500
      [] pc = "upload_to_storage" ->
            /\ locals'.uploads.storage = "failed"
            /\ pc' = IF env.grist_configured THEN "process_grist" ELSE "grist_result"
      [] pc = "process_grist" ->
            ~locals'.success /\ locals'.errors > locals.errors /\ pc' = "grist_result"
      [] pc = "grist_get_ids" -> pc' = "grist_delete"
      [] pc = "grist_delete" -> locals'.errors > locals.errors /\ pc' = "grist_upload"
      [] pc = "grist_upload" ->
            /\ locals'.errors > locals.errors
            /\ Len(locals'.failed_batches) > Len(locals.failed_batches)
            /\ pc' = "grist_upload"
      [] pc = "upload_to_bigquery" ->
            \/ locals'.uploads.bigquery = "failed" /\ pc' = "respond"
            \/ pc' = "idle" /\ response' = 500
      [] OTHER -> FALSE

\* what has been written into the result of the run stays there until the
\* answer is sent
RecordKept ==
    (pc /= "idle" /\ pc' /= "idle") =>
        /\ locals'.errors >= locals.errors
        /\ \A u \in DOMAIN Uploads0 :
              locals.uploads[u] /= "unset" => locals'.uploads[u] = locals.uploads[u]

\* C18: no failure escapes the /process handler. A run ends only with the
\* answer 200 or the JSON error 500; a failure inside the handler gives 500; a
\* failed upload to the bucket, the destination table or the warehouse is
\* written into the result, the record is kept, and the run goes on to the next
\* upload, so that the answer 200 is sent with an entry for each of the three.
C18_FailuresAnswered ==
    [][ /\ (pc /= "idle" /\ pc' = "idle") => response' \in {200, 500}
        /\ FaultStep => FailureHandled
        /\ RecordKept
        /\ pc' = "respond" =>
              /\ \A u \in DOMAIN Uploads0 : locals'.uploads[u] /= "unset"
              /\ locals'.uploads.grist = "result" <=> env.grist_configured
        /\ pc = "respond" => response' = 200
      ]_vars

C18_Witness ==
    /\ pc = "respond"
    /\ locals.uploads.storage = "failed"
    /\ locals.uploads.grist = "result"
    /\ locals.grist_new_data_uploaded
    /\ Len(grist) > 0
    /\ locals.uploads.bigquery = "failed"

(***************************************************************************)
(* C20                                                                     *)
(***************************************************************************)
\* the step in which the delete request goes out, answered or refused
DeleteSent == pc = "grist_delete" /\ locals.ids_a_borrar /= <<>> /\ pc' = "grist_upload"

\* the step in which a batch of new records is posted, answered or refused
InsertSent == pc = "grist_upload" /\ locals'.i > locals.i

\* the new table is the processed upload with the comments merged in
Merged == df = reconcile_comentarios(ProcessedUploads[env][input], df_old_grist)

\* C20: in a /process run the snapshot of the destination table has been read
\* (with the rows it is about to lose) when the delete request is sent, and the
\* table of which a batch is posted is the processed upload after the comment
\* merge, carrying the comment column.
C20_ReadMergeOrder ==
    [][ /\ DeleteSent =>
              /\ locals.grist_old_data_saved
              /\ locals.grist_old_data_rows = Len(grist)
              /\ ~locals.grist_new_data_uploaded /\ locals.uploaded_rows = 0
        /\ InsertSent =>
              /\ Merged
              /\ HasCol(df, "Comentario")
              /\ \A j \in Len(grist) + 1..Len(grist') :
                    FieldComentario \in DOMAIN grist'[j].fields
      ]_vars

C20_Witness ==
    /\ pc = "grist_upload"
    /\ ~IsNone(df_old_grist)
    /\ locals.grist_old_data_saved
    /\ locals.ids_a_borrar /= <<>>
    /\ locals.grist_cleared
    /\ locals.uploaded_rows > 0
    /\ Len(grist) = locals.uploaded_rows

(***************************************************************************)
(* C21                                                                     *)
(***************************************************************************)
\* the invoice cells of the records of the destination, in record order
InvoiceSeq(records) == [g \in 1..Len(records) |-> records[g].fields[FieldNumeroFactura]]

\* the invoice cells of the rows of df from row first to row last
RowInvoices(first, last) == [k \in 1..(last - first + 1) |->
                               df.rows[first + k - 1]["Número Factura"]]

\* the rows of df whose batch was accepted, in table order
AcceptedRows ==
    SelectSeq([k \in 1..NRows(df) |-> k],
              LAMBDA k : ((k - 1) \div batch_size) + 1 \notin FailedBatchNumbers)

\* the records of the destination that an earlier run left
IsOld(g) == g.fields[FieldNumeroFactura] = Num(0)

\* C21: process_grist replaces in bulk. The delete request for the records
\* that are there goes out before anything is inserted (and does go out when
\* nothing has failed); the inserts are posted one batch after the other,
\* batch b holding the rows 500(b-1)+1 .. min(500b, n) of the new table in
\* table order, at most 500 of them; the loop ends after ceil(n/500) requests,
\* and the table then holds each row of an accepted batch once, in table order.
C21_BulkReplaceChunking ==
    [][ /\ (pc = "grist_delete" /\ pc' = "grist_upload") =>
              /\ locals.uploaded_rows = 0 /\ locals.failed_batches = <<>>
              /\ \A g \in 1..Len(grist) : IsOld(grist[g])
              /\ (budget'.faults = 0 /\ grist /= <<>>) => (DeleteSent /\ grist' = <<>>)
        /\ InsertSent =>
              LET b == (locals.i \div batch_size) + 1
                  first == locals.i + 1
                  last == Min2(locals.i + batch_size, NRows(df))
              IN /\ locals.i = (b - 1) * batch_size
                 /\ locals'.i = b * batch_size
                 /\ b <= total_batches
                 /\ last - first + 1 \in 1..batch_size
                 /\ \/ grist' = grist /\ b \in {f.batch : f \in
                           {locals'.failed_batches[k] : k \in 1..Len(locals'.failed_batches)}}
                    \/ /\ Len(grist') = Len(grist) + (last - first + 1)
                       /\ SubSeq(grist', 1, Len(grist)) = grist
                       /\ InvoiceSeq(SubSeq(grist', Len(grist) + 1, Len(grist')))
                              = RowInvoices(first, last)
        /\ (pc = "grist_upload" /\ pc' = "grist_result") =>
              /\ locals.i = total_batches * batch_size
              /\ locals.uploaded_rows = Len(AcceptedRows)
              /\ InvoiceSeq(SelectSeq(grist, LAMBDA g : ~IsOld(g)))
                     = [k \in 1..Len(AcceptedRows) |->
                           df.rows[AcceptedRows[k]]["Número Factura"]]
      ]_vars

C21_Witness ==
    /\ pc = "grist_result"
    /\ NRows(df) = 2 * batch_size + 1
    /\ locals.ids_a_borrar /= <<>>
    /\ locals.grist_cleared
    /\ FailedBatchNumbers = {}
    /\ Len(grist) = NRows(df)
    /\ InvoiceSeq(grist) = RowInvoices(1, NRows(df))

(***************************************************************************)
(* C22                                                                     *)
(***************************************************************************)
\* the text without its spaces, tabs and newlines
IgnoreBlanks(s) == SelectSeq(s, LAMBDA c : c \notin {" ", "\t", "\n"})

\* the reference sheet, name column and value column probed by a lookup step
LookupOf(n) ==
    CASE n = 3 -> [sheet |-> env.provider.values, name |-> 1, value |-> 2,
                   src |-> "Sucursal", target |-> "Unidad de Negocio", fold |-> FALSE]
      [] n = 14 -> [sheet |-> env.tienda.values, name |-> 2, value |-> 3,
                    src |-> "Tienda", target |-> "Area", fold |-> TRUE]
      [] n = 15 -> [sheet |-> env.tienda.values, name |-> 2, value |-> 4,
                    src |-> "Tienda", target |-> "Gerente de Area", fold |-> TRUE]
      [] n = 23 -> [sheet |-> env.especialista.values, name |-> 1, value |-> 2,
                    src |-> "Sucursal", target |-> "Especialista Comercial", fold |-> TRUE]

\* two names are the same key: equal once blanks are ignored, and for a
\* folding lookup once the case of the letters is ignored too
SameKey(fold, a, b) ==
    IF fold THEN lower(IgnoreBlanks(a)) = lower(IgnoreBlanks(b))
    ELSE IgnoreBlanks(a) = IgnoreBlanks(b)

\* the data rows of the sheet that are entries (their name is not blank) and
\* whose name is the same key as the text
Matches(L, text) ==
    {i \in 2..Len(L.sheet) : /\ IgnoreBlanks(L.sheet[i][L.name]) /= <<>>
                             /\ SameKey(L.fold, L.sheet[i][L.name], text)}

\* C22: each lookup step normalizes the reference names and the row's value
\* alike. The row receives a mapped value exactly when its value, as text, is
\* the same key as the name of an entry of the reference sheet (the value of
\* the last such entry, trimmed), and the empty text otherwise; provider keys
\* are compared with their case, store and specialist keys without, and all
\* three without spaces, tabs and newlines.
C22_LookupSymmetry ==
    \A n \in LookupSteps :
        pc = StepNames[n] =>
            LET L == LookupOf(n)
                hit == Matches(L, py_str(input.rows[1][L.src]))
            IN df.rows[1][L.target] =
                  IF hit = {} THEN Txt(<<>>)
                  ELSE Txt(strip(L.sheet[CHOOSE i \in hit : \A j \in hit : j <= i][L.value]))

\* a store spelled in lower case meets the sheet's spaced upper-case spelling
C22_Witness ==
    /\ pc = StepNames[14]
    /\ input.rows[1]["Tienda"] = Txt(K_acme)
    /\ env.tienda.values[2][2] = K_ACMES
    /\ env.tienda.values[3][2] = K_A_CME
    /\ df.rows[1]["Area"] = Txt(V_Norte)

(***************************************************************************)
(* C23                                                                     *)
(***************************************************************************)
\* the rows of the file that are scanned, by their index from 1
Scanned == 1..Min2(Len(input.rows), max_rows_to_check)

\* the expected headers in lower case, trimmed, and without any blank
ExpectedTrimmed == [k \in 1..Len(expected_headers) |-> strip(lower(expected_headers[k]))]

ExpectedBare == [k \in 1..Len(expected_headers) |-> IgnoreBlanks(lower(expected_headers[k]))]

\* the text of a cell in lower case: trimmed, and without any blank
CellTexts(c) ==
    IF c.k = "nan" THEN [blank |-> TRUE, trimmed |-> <<>>, bare |-> <<>>]
    ELSE CHOOSE t \in {[blank |-> IgnoreBlanks(text) = <<>>, trimmed |-> strip(text),
                        bare |-> IgnoreBlanks(text)] : text \in {lower(py_str(c))}} : TRUE

\* how many expected headers the row matches, each counted once: a cell
\* matches an expected header when it is the same text once trimmed and in
\* lower case, or the same text once all blanks are dropped as well
MatchedIn(texts) ==
    Cardinality({k \in 1..Len(expected_headers) :
                    \E j \in 1..Len(texts) :
                       /\ ~texts[j].blank
                       /\ \/ texts[j].trimmed = ExpectedTrimmed[k]
                          \/ texts[j].bare = ExpectedBare[k]})

\* 0 for a blank row
Matched(row) ==
    CHOOSE n \in {IF \A j \in 1..Len(texts) : texts[j].blank THEN 0 ELSE MatchedIn(texts) :
                  texts \in {[j \in 1..Len(row) |-> CellTexts(row[j])]}} : TRUE

\* for each scanned row, how many expected headers it matches; 0 for a blank row
ScannedCounts ==
    [i \in Scanned |-> Matched(input.rows[i])]

\* C23: detect_headers returns the index (from 0) of the scanned non-blank row
\* that matches the most expected headers, if that is at least 5, the earliest
\* of them on a tie; it returns None when no such row exists or the file
\* cannot be read.
C23_HeaderLocator ==
    pc = "detect_headers" =>
        \E counts \in {ScannedCounts} :
            LET Candidates == {i \in Scanned : counts[i] >= 5}
            IN IF ~input.ok \/ Candidates = {} THEN response = None
               ELSE \E i \in Candidates :
                       /\ response = Some(i - 1)
                       /\ \A j \in Candidates : counts[j] <= counts[i]
                       /\ \A j \in Candidates : counts[j] = counts[i] => i <= j

\* a title, then two rows of 5 headers each: the earlier one is returned
C23_Witness ==
    /\ pc = "detect_headers"
    /\ Len(input.rows) = 3
    /\ Matched(input.rows[1]) = 0
    /\ Matched(input.rows[2]) = 5
    /\ Matched(input.rows[3]) = 5
    /\ response = Some(1)

(***************************************************************************)
(* C24                                                                     *)
(***************************************************************************)
\* the one column a step writes: the column it adds, or the one it corrects
FrameTarget(n) ==
    CASE n \in {10, 13} -> "Motivo de Retención"
      [] n = 16 -> "Area"
      [] OTHER -> StepTarget[n]

\* the columns of the table a other than c have the same cells in b, row by row
SameOutside(a, b, c) ==
    /\ NRows(b) = NRows(a)
    /\ \A x \in {a.cols[k] : k \in 1..Len(a.cols)} \ {c} :
          /\ HasCol(b, x)
          /\ \A i \in 1..NRows(a) : b.rows[i][x] = a.rows[i][x]

\* C24: a step from 3 to 23 keeps the rows and their order, and keeps the
\* cells of every column other than its one target column, the R011 columns
\* it reads among them.
C24_SingleColumnFrame ==
    [][\A n \in 3..LastStep :
          pc' = StepNames[n] => SameOutside(df, df', FrameTarget(n))]_vars


(***************************************************************************)
(* Properties of the column projector                                      *)
(***************************************************************************)
Converted == pc = "convert_grist_columns_to_bigquery_schema"

\* the columns of the reference table whose Grist name is n, in table order
CanonicalOf(n) ==
    SelectSeq(input.cols, LAMBDA c : normalize_column_name_for_grist(c) = n)

\* C25 as stated: a snapshot column named after a canonical column with a
\* mapping entry ends with the physical name of that entry, and a column that
\* matches no canonical column with an entry keeps its name.
C25_RenameComposition ==
    Converted =>
        \A k \in 1..Len(The(df_old_grist).cols) :
            \E n \in {The(df_old_grist).cols[k]} :
                /\ \A j \in 1..Len(input.cols) :
                       (/\ in_bq_mapping(input.cols[j])
                        /\ normalize_column_name_for_grist(input.cols[j]) = n)
                       => response[k] = bq_mapping(input.cols[j])
                /\ (~\E j \in 1..Len(input.cols) :
                        /\ in_bq_mapping(input.cols[j])
                        /\ normalize_column_name_for_grist(input.cols[j]) = n)
                   => response[k] = n

\* C25 amended: a snapshot column is restored to the first canonical column
\* of the reference table whose Grist name it bears (to itself when there is
\* none), and the restored name is replaced by its physical name when the
\* mapping has an entry for it and kept otherwise.
C25_RestoreThenMap ==
    Converted =>
        \A k \in 1..Len(The(df_old_grist).cols) :
            \E n \in {The(df_old_grist).cols[k]} :
                \E c \in {IF CanonicalOf(n) = <<>> THEN n ELSE CanonicalOf(n)[1]} :
                    response[k] = IF in_bq_mapping(c) THEN bq_mapping(c) ELSE c

\* a snapshot whose first column is restored to an accented canonical name
\* and mapped, and whose second column is restored and has no mapping entry
C25_Witness ==
    /\ Converted
    /\ Len(response) = 2
    /\ The(df_old_grist).cols[1] = normalize_column_name_for_grist(Chars("Fecha Recepción"))
    /\ response[1] = bq_mapping(Chars("Fecha Recepción"))
    /\ The(df_old_grist).cols[2] /= N_Otra_Columna
    /\ response[2] = N_Otra_Columna


(***************************************************************************)
(* Properties of the numeric date columns                                  *)
(***************************************************************************)
DatesConverted == pc = "date_columns"

\* the reading the thresholds give to a magnitude
ReadAsDays(magnitude) == magnitude < excel_below

\* C26 as stated: each value below 100,000 becomes the day-count date, each
\* other value the Unix-seconds date.
C26_PerValueDisambiguation ==
    DatesConverted =>
        \A k \in 1..Len(input) :
            notna(input[k]) =>
                /\ response.converted
                /\ response.values[k] = IF input[k].n < excel_below
                                        THEN excel_date(input[k])
                                        ELSE to_datetime_s(input[k])

\* C26 amended: the reading is chosen once per column, from the absolute
\* value of its first value that is not null, by the stated thresholds; every
\* value of the column is converted under that reading (a missing one to
\* NaT), and a column read as day-counts with a value outside the calendar
\* is left as it was.
C26_PerColumnDisambiguation ==
    DatesConverted =>
        \E present \in {{k \in 1..Len(input) : notna(input[k])}} :
            IF present = {}
            THEN response.converted /\ \A k \in 1..Len(input) : response.values[k] = NaT
            ELSE \E first \in {CHOOSE k \in present : \A j \in present : k <= j} :
                 IF ~ReadAsDays(py_abs(input[first].n))
                 THEN /\ response.converted
                      /\ \A k \in 1..Len(input) : response.values[k] = to_datetime_s(input[k])
                 ELSE IF \E k \in present : excel_raises(input[k])
                 THEN ~response.converted /\ response.values = input
                 ELSE /\ response.converted
                      /\ \A k \in 1..Len(input) : response.values[k] = excel_date(input[k])

\* a column whose first value is a day-count and that holds a value above
\* 100,000 and a missing one: all three are read as day-counts
C26_Witness ==
    /\ DatesConverted
    /\ input = <<Num(45000), Num(500000), NaN>>
    /\ response.converted
    /\ response.values = <<Timestamp(45000 - excel_epoch_days, 0),
                           Timestamp(500000 - excel_epoch_days, 0), NaT>>


C27_SuccessMeansReplaced ==
    GristReturned =>
        /\ locals.success =>
              /\ locals.grist_cleared
              /\ locals.grist_new_data_uploaded
              /\ locals.errors = 0
              /\ InvoiceSeq(grist) = RowInvoices(1, NRows(df))
        /\ locals.grist_cleared => \A g \in 1..Len(grist) : ~IsOld(grist[g])


(***************************************************************************)
(* C28                                                                     *)
(***************************************************************************)
\* the cell record g holds in field k, NaN when it has none
FieldOrNaN(g, k) == IF k \in DOMAIN g.fields THEN g.fields[k] ELSE NaN

\* the snapshot has a row with the cells of record g
InSnapshot(old, g) ==
    \E i \in 1..NRows(old) :
        \A j \in 1..Len(old.cols) : old.rows[i][old.cols[j]] = FieldOrNaN(g, old.cols[j])

\* C28: every record the delete request of a run removes was in the snapshot
\* the run merged the comments from, with the same cells, the two comments
\* among them.
C28_DeletedWasSnapshotted ==
    [][(pc = "grist_delete" /\ ~IsNone(df_old_grist)) =>
          \A g \in 1..Len(grist) :
              (IsIn(locals.ids_a_borrar, grist[g].id) /\ grist' /= grist)
              => InSnapshot(The(df_old_grist), grist[g])]_vars


(***************************************************************************)
(* C30                                                                     *)
(***************************************************************************)
N_vzla_retenida_timestamp ==
    <<"v", "z", "l", "a", "_", "r", "e", "t", "e", "n", "i", "d", "a", "_",
      "t", "i", "m", "e", "s", "t", "a", "m", "p">>

\* the names on the two sides of the mapping, and of the schema
MappedColumns == {get_bigquery_column_mapping[k][1] : k \in 1..Len(get_bigquery_column_mapping)}

PhysicalColumns == {get_bigquery_column_mapping[k][2] : k \in 1..Len(get_bigquery_column_mapping)}

SchemaColumns == {schema[k] : k \in 1..Len(schema)}

\* no two entries share a column or a physical name
MappingInjective ==
    /\ Cardinality(MappedColumns) = Len(get_bigquery_column_mapping)
    /\ Cardinality(PhysicalColumns) = Len(get_bigquery_column_mapping)

\* C30: each of the 32 header names has an entry in the mapping, and so has
\* every column of the table /process has built when it is uploaded (the
\* derived columns, Comentario, Comentario CXP, Comentario Operación, Fecha
\* Reporte CXP); the mapping is injective; the mapped physical names together
\* with vzla_retenida_timestamp are exactly the field names of the schema.
C30_MappingComplete ==
    /\ \A k \in 1..Len(expected_headers) : expected_headers[k] \in MappedColumns
    /\ pc = "upload_to_storage" =>
          \A j \in 1..Len(df.cols) : Chars(df.cols[j]) \in MappedColumns
    /\ MappingInjective
    /\ PhysicalColumns \cup {N_vzla_retenida_timestamp} = SchemaColumns
    /\ Cardinality(SchemaColumns) = Len(schema)

\* a table with the columns of the last pipeline step and the four columns
\* /process adds is about to be uploaded
C30_Witness ==
    /\ pc = "upload_to_storage"
    /\ NRows(df) > 0
    /\ \A c \in {"Unidad de Negocio", "Tipo de Proveedor", "Motivo de Retención",
                 "Validacion de OC", "Diferencia Real", "Valor Real de Unidades",
                 "Diferencia Unidades", "Valor Real de Subtotal", "Diferencia Costo",
                 "Area", "Gerente de Area", "Rango de fecha", "0-30", "30-60", "60-90",
                 "90-120", "+120", "Especialista Comercial", "Comentario",
                 "Comentario CXP", "Comentario Operación", "Fecha Reporte CXP"} :
          HasCol(df, c)
    /\ Chars("Comentario Operación") \in MappedColumns

====
